---- MODULE Spec2Model ----
(***************************************************************************)
(* TrendScope: multi-source news aggregation pipeline.                     *)
(* Model of the Express variants in src/server.js and src/unnamed/part_*:  *)
(* Source Adapters, Fan-out Collector, Deduplicator, Category Router and   *)
(* Result Cache.                                                           *)
(***************************************************************************)
EXTENDS Integers, Sequences, FiniteSets, TLC

(***************************************************************************)
(* Strings.  A JavaScript string is a sequence of one-character strings;   *)
(* a missing value (undefined / null) is the one-element sequence          *)
(* Undefined, which no real string equals.                                 *)
(***************************************************************************)
Undefined == <<"<undefined>">>

NoLink == "<undefined>"

UpperChars == <<"A","B","C","D","E","F","G","H","I","J","K","L","M",
                "N","O","P","Q","R","S","T","U","V","W","X","Y","Z">>

LowerChars == <<"a","b","c","d","e","f","g","h","i","j","k","l","m",
                "n","o","p","q","r","s","t","u","v","w","x","y","z">>

DigitChars == {"0","1","2","3","4","5","6","7","8","9"}

Range(s) == {s[i] : i \in DOMAIN s}

\* String.prototype.toLowerCase on one character
lowerChar(c) ==
    IF \E i \in DOMAIN UpperChars : UpperChars[i] = c
    THEN LowerChars[CHOOSE i \in DOMAIN UpperChars : UpperChars[i] = c]
    ELSE c

toLowerCase(s) == [i \in DOMAIN s |-> lowerChar(s[i])]

\* the regular-expression classes \w and \s
IsWordChar(c) == c \in Range(UpperChars) \cup Range(LowerChars) \cup DigitChars \cup {"_"}

IsSpaceChar(c) == c \in {" ", "\t", "\n"}

RECURSIVE trimStart(_)
trimStart(s) ==
    IF s # <<>> /\ IsSpaceChar(Head(s)) THEN trimStart(Tail(s)) ELSE s

RECURSIVE trimEnd(_)
trimEnd(s) ==
    IF s # <<>> /\ IsSpaceChar(s[Len(s)]) THEN trimEnd(SubSeq(s, 1, Len(s) - 1)) ELSE s

trim(s) == trimEnd(trimStart(s))

KeepWordOrSpace(c) == IsWordChar(c) \/ IsSpaceChar(c)

\* text.toLowerCase().replace(/[^\w\s]/g, '').trim()
normalizeText(text) == trim(SelectSeq(toLowerCase(text), KeepWordOrSpace))

(***************************************************************************)
(* stringSimilarity.compareTwoStrings: Dice coefficient over the bigrams   *)
(* of the two strings with whitespace removed.  The score is the fraction  *)
(* SimNum / SimDen; SimilarityExceeds compares it with a percentage.       *)
(***************************************************************************)
NotSpace(c) == ~IsSpaceChar(c)

stripSpaces(s) == SelectSeq(s, NotSpace)

bigrams(s) == [i \in 1..(Len(s) - 1) |-> <<s[i], s[i + 1]>>]

\* number of occurrences of x in the sequence s
RECURSIVE countIn(_, _)
countIn(x, s) ==
    IF s = <<>> THEN 0
    ELSE (IF Head(s) = x THEN 1 ELSE 0) + countIn(x, Tail(s))

Min(a, b) == IF a < b THEN a ELSE b

RECURSIVE SumOver(_, _, _)
SumOver(S, f1, f2) ==
    IF S = {} THEN 0
    ELSE LET x == CHOOSE y \in S : TRUE
         IN Min(countIn(x, f1), countIn(x, f2)) + SumOver(S \ {x}, f1, f2)

\* size of the multiset intersection of the two bigram lists
intersectionSize(b1, b2) == SumOver(Range(b1), b1, b2)

SimNum(first, second) ==
    LET a == stripSpaces(first)
        b == stripSpaces(second)
    IN IF a = b THEN 1
       ELSE IF Len(a) < 2 \/ Len(b) < 2 THEN 0
       ELSE 2 * intersectionSize(bigrams(a), bigrams(b))

SimDen(first, second) ==
    LET a == stripSpaces(first)
        b == stripSpaces(second)
    IN IF a = b THEN 1
       ELSE IF Len(a) < 2 \/ Len(b) < 2 THEN 1
       ELSE Len(a) + Len(b) - 2

\* compareTwoStrings(first, second) > pct / 100
SimilarityExceeds(first, second, pct) ==
    100 * SimNum(first, second) > pct * SimDen(first, second)

\* the dedup threshold 0.85, as a percentage
SimilarityThreshold == 85

\* minimum length of a normalized title in part_006
MinTitleLength == 10

(***************************************************************************)
(* Deduplicator.  JavaScript truthiness of a title or link: undefined,     *)
(* null and the empty string are falsy.                                    *)
(***************************************************************************)
FalsyTitle(t) == t = Undefined \/ t = <<>>

FalsyLink(l) == l = NoLink \/ l = ""

\* server.js: the loop over seenTitles that sets isDuplicate
isDuplicate(seenTitles, normTitle) ==
    \E existingTitle \in seenTitles :
        SimilarityExceeds(existingTitle, normTitle, SimilarityThreshold)

\* a loop iteration that tests the URL only
skipsArticleUrlOnly(article, seenTitles, seenUrls) ==
    \/ FalsyTitle(article.title) \/ FalsyLink(article.link)
    \/ article.link \in seenUrls

\* server.js: the three `continue` tests of one loop iteration
skipsArticle(article, seenTitles, seenUrls) ==
    \/ FalsyTitle(article.title) \/ FalsyLink(article.link)
    \/ article.link \in seenUrls
    \/ isDuplicate(seenTitles, normalizeText(article.title))

\* an adjacent-duplicate removal: a title is compared with the title of the
\* article examined just before it, not with every retained title
RECURSIVE removeAdjacentLoop(_, _, _, _, _)
removeAdjacentLoop(articles, i, seenTitles, seenUrls, unique) ==
    IF i > Len(articles) THEN unique
    ELSE LET article == articles[i]
             last == IF FalsyTitle(article.title) THEN seenTitles
                     ELSE {normalizeText(article.title)}
         IN IF skipsArticle(article, seenTitles, seenUrls)
            THEN removeAdjacentLoop(articles, i + 1, last, seenUrls, unique)
            ELSE removeAdjacentLoop(articles, i + 1, last,
                                    seenUrls \cup {article.link},
                                    Append(unique, article))

\* a loop that also remembers the titles of the articles it drops
RECURSIVE removeRememberingLoop(_, _, _, _, _)
removeRememberingLoop(articles, i, seenTitles, seenUrls, unique) ==
    IF i > Len(articles) THEN unique
    ELSE LET article == articles[i]
             titles == IF FalsyTitle(article.title) THEN seenTitles
                       ELSE seenTitles \cup {normalizeText(article.title)}
         IN IF skipsArticle(article, seenTitles, seenUrls)
            THEN removeRememberingLoop(articles, i + 1, titles, seenUrls, unique)
            ELSE removeRememberingLoop(articles, i + 1, titles,
                                       seenUrls \cup {article.link},
                                       Append(unique, article))

RECURSIVE removeDuplicatesLoop(_, _, _, _, _)
removeDuplicatesLoop(articles, i, seenTitles, seenUrls, unique) ==
    IF i > Len(articles) THEN unique
    ELSE LET article == articles[i]
         IN IF skipsArticle(article, seenTitles, seenUrls)
            THEN removeDuplicatesLoop(articles, i + 1, seenTitles, seenUrls, unique)
            ELSE removeDuplicatesLoop(articles, i + 1,
                                      seenTitles \cup {normalizeText(article.title)},
                                      seenUrls \cup {article.link},
                                      Append(unique, article))

\* a deduplicator that returns the retained articles with normalized titles
removeDuplicatesNormalizing(articles) ==
    LET kept == removeDuplicatesLoop(articles, 1, {}, {}, <<>>)
    IN [threw |-> FALSE,
        value |-> [i \in DOMAIN kept |->
                     [kept[i] EXCEPT !.title = normalizeText(kept[i].title)]]]

\* server.js removeDuplicates: exact URL, then fuzzy title
removeDuplicatesServer(articles) ==
    [threw |-> FALSE, value |-> removeDuplicatesLoop(articles, 1, {}, {}, <<>>)]

\* part_006: the filter callback's rejection test
rejectsTitle(seen, normalizedTitle) ==
    normalizedTitle \in seen \/ Len(normalizedTitle) < MinTitleLength

RECURSIVE filterTitles(_, _, _, _)
filterTitles(articles, i, seen, kept) ==
    IF i > Len(articles) THEN kept
    ELSE LET normalizedTitle == normalizeText(articles[i].title)
         IN IF rejectsTitle(seen, normalizedTitle)
            THEN filterTitles(articles, i + 1, seen, kept)
            ELSE filterTitles(articles, i + 1, seen \cup {normalizedTitle},
                              Append(kept, articles[i]))

\* part_006 removeDuplicates: exact normalized title and minimum length;
\* article.title.toLowerCase() raises a TypeError on a missing title
removeDuplicatesPart006(articles) ==
    IF \E i \in DOMAIN articles : articles[i].title = Undefined
    THEN [threw |-> TRUE, value |-> <<>>]
    ELSE [threw |-> FALSE, value |-> filterTitles(articles, 1, {}, <<>>)]

Variants == {"server", "part_006"}

removeDuplicates(v, articles) ==
    IF v = "server" THEN removeDuplicatesServer(articles)
    ELSE removeDuplicatesPart006(articles)

(***************************************************************************)
(* Upstream HTTP calls.  The outcome of one axios.get is a record          *)
(*   kind = "nokey"     the API key is not in the environment              *)
(*   kind = "error"     network error, timeout, non-2xx or rate limit      *)
(*   kind = "malformed" a 2xx payload without the expected array           *)
(*   kind = "ok"        a payload whose extracted items are `items`        *)
(* A raw item is [title, link, publishedAt]; the sample links are all      *)
(* absolute URLs.  The value of a call is [threw, value].                  *)
(***************************************************************************)
Raise == [threw |-> TRUE, value |-> <<>>]

Ret(v) == [threw |-> FALSE, value |-> v]

includes(s, sub) ==
    \E i \in 1..(Len(s) - Len(sub) + 1) : SubSeq(s, i, i + Len(sub) - 1) = sub

\* s.split(sep)[0]
splitFirst(s, sep) ==
    IF includes(s, sep)
    THEN LET i == CHOOSE j \in 1..(Len(s) - Len(sep) + 1) :
                     /\ SubSeq(s, j, j + Len(sep) - 1) = sep
                     /\ \A h \in 1..(j - 1) : SubSeq(s, h, h + Len(sep) - 1) # sep
         IN SubSeq(s, 1, i - 1)
    ELSE s

\* array.slice(0, n)
slice(s, n) == SubSeq(s, 1, Min(n, Len(s)))

\* the `!trends.includes(title)` test of a push loop: first occurrences only
RECURSIVE uniq(_)
uniq(s) ==
    IF s = <<>> THEN <<>>
    ELSE LET r == uniq(SubSeq(s, 1, Len(s) - 1))
         IN IF s[Len(s)] \in Range(r) THEN r ELSE Append(r, s[Len(s)])

titlesOf(items) == [i \in DOMAIN items |-> items[i].title]

DailySearchTrends == <<"D","a","i","l","y"," ","S","e","a","r","c","h"," ","T","r","e","n","d","s">>

TrendingSearches == <<"T","r","e","n","d","i","n","g"," ","s","e","a","r","c","h","e","s">>

SepDash == <<" ","-"," ">>

\* the item cap of the trend adapters
TrendCap == 10

(***************************************************************************)
(* Source Adapters of server.js, /api/trends variant (lines 42-213).       *)
(* xxxTry is the value of the try block, xxx the value of the function.    *)
(***************************************************************************)
KeepTrendRSS(t) ==
    /\ ~FalsyTitle(t) /\ t # DailySearchTrends /\ ~includes(t, TrendingSearches)
    /\ Len(t) > 2 /\ Len(t) < 60

scrapeGoogleTrendsRSSTry(o) ==
    IF o.kind # "ok" THEN Raise
    ELSE Ret(slice(uniq(SelectSeq(titlesOf(o.items), KeepTrendRSS)), TrendCap))

\* a function body without its try/catch
NoCatch(t) == t

OnCatchEmpty(t) == IF t.threw THEN Ret(<<>>) ELSE t

scrapeGoogleTrendsRSS(o) == OnCatchEmpty(scrapeGoogleTrendsRSSTry(o))

KeepQuery(t) == ~FalsyTitle(t)

\* JSON.parse raises on a malformed payload
scrapeGoogleTrendsAPITry(o) ==
    IF o.kind # "ok" THEN Raise
    ELSE Ret(slice(SelectSeq(titlesOf(o.items), KeepQuery), TrendCap))

scrapeGoogleTrendsAPI(o) == OnCatchEmpty(scrapeGoogleTrendsAPITry(o))

KeepRSS(t) == ~FalsyTitle(t) /\ Len(t) > 5 /\ Len(t) < 100

fetchRSSFeedTry(o) ==
    IF o.kind # "ok" THEN Raise
    ELSE Ret(slice(uniq(SelectSeq(titlesOf(o.items), KeepRSS)), TrendCap))

fetchRSSFeed(o) == OnCatchEmpty(fetchRSSFeedTry(o))

\* article.title.split(' - ')[0].trim(), null for a missing title
headline(t) == IF FalsyTitle(t) THEN Undefined ELSE trim(splitFirst(t, SepDash))

KeepHeadline(t) == ~FalsyTitle(t) /\ Len(t) > 5 /\ Len(t) < 80

headlines(items) ==
    slice(SelectSeq([i \in DOMAIN items |-> headline(items[i].title)], KeepHeadline),
          TrendCap)

getNewsTopicsTry(o) ==
    IF o.kind = "nokey" THEN Ret(<<>>)
    ELSE IF o.kind = "error" THEN Raise
    ELSE IF o.kind = "ok" /\ Len(o.items) > 0 THEN Ret(headlines(o.items))
    ELSE Ret(<<>>)

getNewsTopics(o) == OnCatchEmpty(getNewsTopicsTry(o))

(***************************************************************************)
(* Source Adapters of part_001 (lines 41-125): mock data fallback.         *)
(***************************************************************************)
MockKeys == {"kenya", "worldwide", "xtrends", "news", "technology", "entertainment", "sports", "lifestyle", "business", "health", "science", "fashion"}

mockData ==
    [k \in MockKeys |->
        CASE k = "kenya" ->
            <<<<"S","a","f","a","r","i","c","o","m">>,
              <<"M","-","P","e","s","a"," ","I","n","n","o","v","a","t","i","o","n">>,
              <<"N","a","i","r","o","b","i"," ","T","e","c","h"," ","H","u","b">>,
              <<"K","e","n","y","a"," ","A","i","r","w","a","y","s">>,
              <<"T","u","s","k","e","r"," ","B","e","e","r">>,
              <<"K","C","B"," ","B","a","n","k">>,
              <<"E","q","u","i","t","y"," ","B","a","n","k">>,
              <<"K","e","n","y","a","n"," ","S","t","a","r","t","u","p","s">>,
              <<"S","a","f","a","r","i"," ","T","o","u","r","i","s","m">>,
              <<"M","a","a","s","a","i"," ","C","u","l","t","u","r","e">>>>
          [] k = "worldwide" ->
            <<<<"A","I"," ","R","e","v","o","l","u","t","i","o","n">>,
              <<"C","l","i","m","a","t","e"," ","A","c","t","i","o","n">>,
              <<"W","e","b","3"," ","T","e","c","h","n","o","l","o","g","y">>,
              <<"S","p","a","c","e"," ","E","x","p","l","o","r","a","t","i","o","n">>,
              <<"G","r","e","e","n"," ","E","n","e","r","g","y">>,
              <<"D","i","g","i","t","a","l"," ","T","r","a","n","s","f","o","r","m","a","t","i","o","n">>,
              <<"S","u","s","t","a","i","n","a","b","l","e"," ","D","e","v","e","l","o","p","m","e","n","t">>,
              <<"G","l","o","b","a","l"," ","H","e","a","l","t","h">>,
              <<"R","e","m","o","t","e"," ","W","o","r","k">>,
              <<"C","r","y","p","t","o","c","u","r","r","e","n","c","y">>>>
          [] k = "xtrends" ->
            <<<<"#","A","I">>,
              <<"#","C","l","i","m","a","t","e">>,
              <<"#","C","r","y","p","t","o">>,
              <<"#","T","e","c","h">>,
              <<"#","I","n","n","o","v","a","t","i","o","n">>,
              <<"#","S","u","s","t","a","i","n","a","b","i","l","i","t","y">>,
              <<"#","W","e","b","3">>,
              <<"#","H","e","a","l","t","h">>,
              <<"#","E","d","u","c","a","t","i","o","n">>,
              <<"#","E","n","t","e","r","t","a","i","n","m","e","n","t">>>>
          [] k = "news" ->
            <<<<"G","l","o","b","a","l"," ","E","l","e","c","t","i","o","n","s">>,
              <<"C","l","i","m","a","t","e"," ","S","u","m","m","i","t">>,
              <<"T","e","c","h"," ","R","e","g","u","l","a","t","i","o","n","s">>,
              <<"I","n","t","e","r","n","a","t","i","o","n","a","l"," ","T","r","a","d","e">>,
              <<"H","e","a","l","t","h"," ","U","p","d","a","t","e","s">>,
              <<"E","c","o","n","o","m","i","c"," ","R","e","c","o","v","e","r","y">>,
              <<"P","o","l","i","t","i","c","a","l"," ","C","h","a","n","g","e","s">>,
              <<"S","o","c","i","a","l"," ","I","s","s","u","e","s">>,
              <<"E","n","v","i","r","o","n","m","e","n","t","a","l"," ","N","e","w","s">>,
              <<"B","r","e","a","k","i","n","g"," ","H","e","a","d","l","i","n","e","s">>>>
          [] k = "technology" ->
            <<<<"C","h","a","t","G","P","T">>,
              <<"B","l","o","c","k","c","h","a","i","n">>,
              <<"V","i","r","t","u","a","l"," ","R","e","a","l","i","t","y">>,
              <<"Q","u","a","n","t","u","m"," ","C","o","m","p","u","t","i","n","g">>,
              <<"5","G"," ","N","e","t","w","o","r","k","s">>,
              <<"I","n","t","e","r","n","e","t"," ","o","f"," ","T","h","i","n","g","s">>,
              <<"C","y","b","e","r","s","e","c","u","r","i","t","y">>,
              <<"C","l","o","u","d"," ","C","o","m","p","u","t","i","n","g">>,
              <<"M","a","c","h","i","n","e"," ","L","e","a","r","n","i","n","g">>,
              <<"R","o","b","o","t","i","c","s">>>>
          [] k = "entertainment" ->
            <<<<"N","e","t","f","l","i","x"," ","O","r","i","g","i","n","a","l","s">>,
              <<"S","p","o","t","i","f","y"," ","P","l","a","y","l","i","s","t","s">>,
              <<"G","a","m","i","n","g"," ","T","r","e","n","d","s">>,
              <<"M","o","v","i","e"," ","R","e","l","e","a","s","e","s">>,
              <<"M","u","s","i","c"," ","C","h","a","r","t","s">>,
              <<"C","e","l","e","b","r","i","t","y"," ","N","e","w","s">>,
              <<"T","V"," ","S","h","o","w","s">>,
              <<"S","t","r","e","a","m","i","n","g"," ","W","a","r","s">>,
              <<"S","o","c","i","a","l"," ","M","e","d","i","a">>,
              <<"V","i","r","a","l"," ","C","o","n","t","e","n","t">>>>
          [] k = "sports" ->
            <<<<"F","o","o","t","b","a","l","l"," ","W","o","r","l","d"," ","C","u","p">>,
              <<"N","B","A"," ","S","e","a","s","o","n">>,
              <<"T","e","n","n","i","s"," ","G","r","a","n","d"," ","S","l","a","m">>,
              <<"O","l","y","m","p","i","c","s"," ","P","r","e","p">>,
              <<"M","a","r","a","t","h","o","n"," ","E","v","e","n","t","s">>,
              <<"P","r","e","m","i","e","r"," ","L","e","a","g","u","e">>,
              <<"B","a","s","k","e","t","b","a","l","l"," ","F","i","n","a","l","s">>,
              <<"G","o","l","f"," ","C","h","a","m","p","i","o","n","s","h","i","p","s">>,
              <<"A","t","h","l","e","t","i","c","s"," ","R","e","c","o","r","d","s">>,
              <<"S","p","o","r","t","s"," ","T","e","c","h","n","o","l","o","g","y">>>>
          [] k = "lifestyle" ->
            <<<<"W","e","l","l","n","e","s","s"," ","T","r","e","n","d","s">>,
              <<"T","r","a","v","e","l"," ","D","e","s","t","i","n","a","t","i","o","n","s">>,
              <<"F","a","s","h","i","o","n"," ","W","e","e","k">>,
              <<"F","o","o","d"," ","C","u","l","t","u","r","e">>,
              <<"F","i","t","n","e","s","s"," ","C","h","a","l","l","e","n","g","e","s">>,
              <<"H","o","m","e"," ","D","e","s","i","g","n">>,
              <<"S","u","s","t","a","i","n","a","b","l","e"," ","L","i","v","i","n","g">>,
              <<"M","e","n","t","a","l"," ","H","e","a","l","t","h">>,
              <<"P","r","o","d","u","c","t","i","v","i","t","y"," ","T","i","p","s">>,
              <<"L","i","f","e"," ","H","a","c","k","s">>>>
          [] k = "business" ->
            <<<<"S","t","a","r","t","u","p"," ","F","u","n","d","i","n","g">>,
              <<"S","t","o","c","k"," ","M","a","r","k","e","t">>,
              <<"E","-","c","o","m","m","e","r","c","e"," ","G","r","o","w","t","h">>,
              <<"F","i","n","a","n","c","i","a","l"," ","T","e","c","h","n","o","l","o","g","y">>,
              <<"M","a","r","k","e","t"," ","A","n","a","l","y","s","i","s">>,
              <<"I","n","v","e","s","t","m","e","n","t"," ","T","r","e","n","d","s">>,
              <<"B","u","s","i","n","e","s","s"," ","S","t","r","a","t","e","g","y">>,
              <<"E","n","t","r","e","p","r","e","n","e","u","r","s","h","i","p">>,
              <<"C","o","r","p","o","r","a","t","e"," ","N","e","w","s">>,
              <<"E","c","o","n","o","m","i","c"," ","I","n","d","i","c","a","t","o","r","s">>>>
          [] k = "health" ->
            <<<<"M","e","n","t","a","l"," ","W","e","l","l","n","e","s","s">>,
              <<"N","u","t","r","i","t","i","o","n"," ","S","c","i","e","n","c","e">>,
              <<"E","x","e","r","c","i","s","e"," ","R","o","u","t","i","n","e","s">>,
              <<"M","e","d","i","c","a","l"," ","B","r","e","a","k","t","h","r","o","u","g","h","s">>,
              <<"H","e","a","l","t","h","c","a","r","e"," ","T","e","c","h","n","o","l","o","g","y">>,
              <<"P","a","n","d","e","m","i","c"," ","R","e","c","o","v","e","r","y">>,
              <<"P","r","e","v","e","n","t","i","v","e"," ","C","a","r","e">>,
              <<"H","e","a","l","t","h"," ","A","p","p","s">>,
              <<"F","i","t","n","e","s","s"," ","T","r","e","n","d","s">>,
              <<"W","e","l","l","n","e","s","s"," ","P","r","o","g","r","a","m","s">>>>
          [] k = "science" ->
            <<<<"S","p","a","c","e"," ","M","i","s","s","i","o","n","s">>,
              <<"C","l","i","m","a","t","e"," ","R","e","s","e","a","r","c","h">>,
              <<"P","h","y","s","i","c","s"," ","D","i","s","c","o","v","e","r","i","e","s">>,
              <<"B","i","o","t","e","c","h","n","o","l","o","g","y">>,
              <<"S","c","i","e","n","t","i","f","i","c"," ","S","t","u","d","i","e","s">>,
              <<"R","e","s","e","a","r","c","h"," ","B","r","e","a","k","t","h","r","o","u","g","h","s">>,
              <<"E","n","v","i","r","o","n","m","e","n","t","a","l"," ","S","c","i","e","n","c","e">>,
              <<"M","e","d","i","c","a","l"," ","R","e","s","e","a","r","c","h">>,
              <<"T","e","c","h","n","o","l","o","g","y"," ","I","n","n","o","v","a","t","i","o","n">>,
              <<"D","a","t","a"," ","S","c","i","e","n","c","e">>>>
          [] k = "fashion" ->
            <<<<"S","u","s","t","a","i","n","a","b","l","e"," ","F","a","s","h","i","o","n">>,
              <<"S","t","r","e","e","t"," ","S","t","y","l","e">>,
              <<"L","u","x","u","r","y"," ","B","r","a","n","d","s">>,
              <<"F","a","s","h","i","o","n"," ","T","r","e","n","d","s">>,
              <<"D","e","s","i","g","n","e","r"," ","C","o","l","l","a","b","o","r","a","t","i","o","n","s">>,
              <<"F","a","s","h","i","o","n"," ","T","e","c","h","n","o","l","o","g","y">>,
              <<"V","i","n","t","a","g","e"," ","R","e","v","i","v","a","l">>,
              <<"M","i","n","i","m","a","l","i","s","t"," ","S","t","y","l","e">>,
              <<"C","u","l","t","u","r","a","l"," ","F","a","s","h","i","o","n">>,
              <<"E","c","o","-","F","r","i","e","n","d","l","y"," ","C","l","o","t","h","i","n","g">>>>]

\* mockData[category] || []
mockOrEmpty(category) == IF category \in MockKeys THEN mockData[category] ELSE <<>>

getNewsTopics001Try(category, o) ==
    IF o.kind = "nokey" THEN Ret(mockOrEmpty(category))
    ELSE IF o.kind = "error" THEN Raise
    ELSE IF o.kind = "ok"
         THEN LET trends == headlines(o.items)
              IN Ret(IF Len(trends) > 0 THEN trends ELSE mockOrEmpty(category))
    ELSE Ret(mockOrEmpty(category))

getNewsTopics001(category, o) ==
    LET t == getNewsTopics001Try(category, o)
    IN IF t.threw THEN Ret(mockOrEmpty(category)) ELSE t

KeepTrendName(t) == ~FalsyTitle(t) /\ Len(t) > 0 /\ Len(t) < 50

getXTrendsTry(o) ==
    IF o.kind = "nokey" THEN Ret(mockData["xtrends"])
    ELSE IF o.kind = "error" THEN Raise
    ELSE IF o.kind = "ok"
         THEN LET trends == slice(SelectSeq(titlesOf(o.items), KeepTrendName), TrendCap)
              IN Ret(IF Len(trends) > 0 THEN trends ELSE mockData["xtrends"])
    ELSE Ret(mockData["xtrends"])

getXTrends(o) ==
    LET t == getXTrendsTry(o)
    IN IF t.threw THEN Ret(mockData["xtrends"]) ELSE t

(***************************************************************************)
(* Source Adapters of part_006, /api/trends variant (lines 342-494):       *)
(* cascading fallback scrapeGoogleTrends -> scrapeGoogleTrendsRSS ->       *)
(* static country list.                                                    *)
(***************************************************************************)
TrendingSearchesIn(region) ==
    IF region = "KE" THEN <<"T","r","e","n","d","i","n","g"," ","s","e","a","r","c","h","e","s"," ","i","n"," ","K","E">>
    ELSE IF region = "US" THEN <<"T","r","e","n","d","i","n","g"," ","s","e","a","r","c","h","e","s"," ","i","n"," ","U","S">>
    ELSE <<>>

countryTrendsKE ==
        <<<<"S","a","f","a","r","i","c","o","m">>,
          <<"M","-","P","e","s","a">>,
          <<"N","a","i","r","o","b","i">>,
          <<"W","i","l","l","i","a","m"," ","R","u","t","o">>,
          <<"K","C","S","E"," ","R","e","s","u","l","t","s">>,
          <<"K","e","n","y","a"," ","A","i","r","w","a","y","s">>,
          <<"T","u","s","k","e","r">>,
          <<"K","C","B">>,
          <<"E","q","u","i","t","y"," ","B","a","n","k">>,
          <<"M","a","a","s","a","i"," ","M","a","r","a">>>>

countryTrendsUS ==
        <<<<"D","o","n","a","l","d"," ","T","r","u","m","p">>,
          <<"T","a","y","l","o","r"," ","S","w","i","f","t">>,
          <<"N","F","L">>,
          <<"i","P","h","o","n","e">>,
          <<"C","h","a","t","G","P","T">>,
          <<"N","e","t","f","l","i","x">>,
          <<"A","m","a","z","o","n">>,
          <<"T","e","s","l","a">>,
          <<"G","o","o","g","l","e">>,
          <<"Y","o","u","T","u","b","e">>>>

countryTrendsDefault ==
        <<<<"T","e","c","h","n","o","l","o","g","y">>,
          <<"E","n","t","e","r","t","a","i","n","m","e","n","t">>,
          <<"S","p","o","r","t","s">>,
          <<"N","e","w","s">>,
          <<"H","e","a","l","t","h">>,
          <<"S","c","i","e","n","c","e">>,
          <<"B","u","s","i","n","e","s","s">>,
          <<"F","a","s","h","i","o","n">>,
          <<"T","r","a","v","e","l">>,
          <<"F","o","o","d">>>>

\* countryTrends[region] || countryTrends['default']
countryTrends(region) ==
    IF region = "KE" THEN countryTrendsKE
    ELSE IF region = "US" THEN countryTrendsUS
    ELSE countryTrendsDefault

scrapeGoogleTrendsRSS006Try(region, rss) ==
    IF rss.kind # "ok" THEN Raise
    ELSE LET Keep(t) == /\ ~FalsyTitle(t) /\ t # DailySearchTrends
                        /\ t # TrendingSearchesIn(region)
                        /\ Len(t) > 2 /\ Len(t) < 60
         IN Ret(slice(uniq(SelectSeq(titlesOf(rss.items), Keep)), TrendCap))

scrapeGoogleTrendsRSS006(region, rss) ==
    LET t == scrapeGoogleTrendsRSS006Try(region, rss)
    IN IF t.threw THEN Ret(countryTrends(region)) ELSE t

KeepScraped(t) == ~FalsyTitle(t) /\ Len(t) > 2 /\ Len(t) < 60

scrapeGoogleTrends006Try(region, html, rss) ==
    IF html.kind # "ok" THEN Raise
    ELSE LET trends == uniq(SelectSeq(titlesOf(html.items), KeepScraped))
         IN IF Len(trends) = 0 THEN scrapeGoogleTrendsRSS006(region, rss)
            ELSE Ret(slice(trends, TrendCap))

scrapeGoogleTrends006(region, html, rss) ==
    LET t == scrapeGoogleTrends006Try(region, html, rss)
    IN IF t.threw THEN scrapeGoogleTrendsRSS006(region, rss) ELSE t

getNewsTopics006Try(api, html, rss) ==
    IF api.kind = "nokey" THEN scrapeGoogleTrends006("US", html, rss)
    ELSE IF api.kind = "error" THEN Raise
    ELSE IF api.kind = "ok" /\ Len(api.items) > 0 /\ Len(headlines(api.items)) > 0
         THEN Ret(headlines(api.items))
    ELSE scrapeGoogleTrends006("US", html, rss)

getNewsTopics006(api, html, rss) ==
    LET t == getNewsTopics006Try(api, html, rss)
    IN IF t.threw THEN scrapeGoogleTrends006("US", html, rss) ELSE t

(***************************************************************************)
(* Source Adapters of part_006, news variant (lines 53-123).               *)
(***************************************************************************)
toArticle(item, category, from) ==
    [title |-> item.title, link |-> item.link, category |-> category,
     pubDate |-> item.publishedAt, from |-> from]

\* response.data.articles.map raises when the array is missing; without a
\* token the request is rejected by the API
getGNewsKenyanContentTry(category, o) ==
    IF o.kind # "ok" THEN Raise
    ELSE Ret([i \in DOMAIN o.items |-> toArticle(o.items[i], category, "gnews")])

getGNewsKenyanContent(category, o) == OnCatchEmpty(getGNewsKenyanContentTry(category, o))

getNewsAPIKenyanContentTry(category, o) ==
    IF o.kind # "ok" THEN Raise
    ELSE Ret([i \in DOMAIN o.items |-> toArticle(o.items[i], category, "newsapi")])

getNewsAPIKenyanContent(category, o) ==
    OnCatchEmpty(getNewsAPIKenyanContentTry(category, o))

(***************************************************************************)
(* Source Adapters of server.js, news variant (lines 490-750).             *)
(***************************************************************************)
Sites == <<"kenyans.co.ke", "mpasho.co.ke", "ghafla.com", "pulsesports.co.ke",
           "businessdailyafrica.com", "standardmedia.co.ke", "royalmedia.co.ke",
           "mediamaxnetwork.co.ke">>

SiteCategory(site) ==
    CASE site = "kenyans.co.ke" -> "general"
      [] site \in {"mpasho.co.ke", "ghafla.com"} -> "entertainment"
      [] site = "pulsesports.co.ke" -> "sports"
      [] site = "businessdailyafrica.com" -> "business"
      [] OTHER -> "news"

\* scrapeKenyansCo ... scrapeMediaMax: one article per card with a title and a link
scrapeSiteTry(site, o, now) ==
    IF o.kind # "ok" THEN Raise
    ELSE LET HasBoth(item) == ~FalsyTitle(trim(item.title)) /\ item.title # Undefined
                              /\ ~FalsyLink(item.link)
             cards == SelectSeq(o.items, HasBoth)
         IN Ret([i \in DOMAIN cards |->
                   [title |-> trim(cards[i].title), link |-> cards[i].link,
                    category |-> SiteCategory(site), pubDate |-> now, from |-> site]])

\* a scraper without its catch
scrapeSiteRejects(site, o, now) == scrapeSiteTry(site, o, now)

scrapeSite(site, o, now) == OnCatchEmpty(scrapeSiteTry(site, o, now))

QueryPolitics == "Kenya politics OR government"

\* categoryQuery.includes('politics') ? 'politics' : 'general'
gnewsCategory(categoryQuery) ==
    IF categoryQuery = QueryPolitics THEN "politics" ELSE "general"

fetchGNewsKenyanTry(categoryQuery, o) ==
    IF o.kind = "error" THEN Raise
    ELSE IF o.kind = "malformed" THEN Ret(<<>>)
    ELSE Ret([i \in DOMAIN o.items |->
                toArticle(o.items[i], gnewsCategory(categoryQuery), "gnews")])

fetchGNewsKenyan(categoryQuery, o) ==
    IF o.kind = "nokey" THEN Ret(<<>>)
    ELSE OnCatchEmpty(fetchGNewsKenyanTry(categoryQuery, o))

(***************************************************************************)
(* Category Router and aggregation of server.js, news variant              *)
(* (lines 755-896).  `web` holds the outcome of every upstream call of     *)
(* one round: web.sites[i] for Sites[i], web.gnews, web.newsapi, web.rss.  *)
(***************************************************************************)
CategoryKeysServer == <<"general", "politics", "business", "sports", "entertainment",
                        "technology", "health", "lifestyle", "news">>

\* CATEGORY_QUERIES[category] || 'Kenya'
CATEGORY_QUERIES(category) ==
    CASE category = "general" -> "Kenya"
      [] category = "politics" -> QueryPolitics
      [] category = "business" -> "Kenya business OR economy OR finance"
      [] category = "sports" -> "Kenya sports OR football OR athletics"
      [] category = "entertainment" -> "Kenya entertainment OR music OR movies"
      [] category = "technology" -> "Kenya technology OR digital OR innovation"
      [] category = "health" -> "Kenya health OR healthcare OR medicine"
      [] category = "lifestyle" -> "Kenya lifestyle OR fashion OR culture"
      [] category = "news" -> "Kenya news"
      [] OTHER -> "Kenya"

RECURSIVE flat(_)
flat(lists) == IF lists = <<>> THEN <<>> ELSE Head(lists) \o flat(Tail(lists))

\* Promise.all: the values in the order of the promises, or the rejection
promiseAll(settled) ==
    IF \E i \in DOMAIN settled : settled[i].threw THEN Raise
    ELSE Ret([i \in DOMAIN settled |-> settled[i].value])

\* what scrapeAllSites makes of its eight settled scraper promises
collectSites(settled) ==
    LET all == promiseAll(settled)
    IN IF all.threw THEN Raise ELSE Ret(flat(all.value))

scrapeAllSites(web, now) ==
    collectSites([i \in DOMAIN Sites |-> scrapeSite(Sites[i], web.sites[i], now)])

\* [...scrapedArticles, ...gnewsArticles] out of Promise.all of the two
combineArticles(scrapedArticles, gnewsArticles) ==
    LET both == promiseAll(<<scrapedArticles, gnewsArticles>>)
    IN IF both.threw THEN Raise ELSE Ret(both.value[1] \o both.value[2])

\* article.category.toLowerCase().includes(category.toLowerCase()): among the
\* category names of server.js one contains another only when they are equal
\* a filter that admits every article
matchesAny(article, category) == article.category = article.category

matchesCategory(article, category) == article.category = category

\* insertion of one article into a list sorted newest first, after its equals
RECURSIVE insertNewestFirst(_, _)
insertNewestFirst(sorted, a) ==
    IF sorted = <<>> THEN <<a>>
    ELSE IF Head(sorted).pubDate >= a.pubDate
         THEN <<Head(sorted)>> \o insertNewestFirst(Tail(sorted), a)
         ELSE <<a>> \o sorted

\* uniqueArticles.sort((a, b) => new Date(b.pubDate) - new Date(a.pubDate))
RECURSIVE sortNewestFirst(_)
sortNewestFirst(list) ==
    IF list = <<>> THEN <<>>
    ELSE insertNewestFirst(sortNewestFirst(SubSeq(list, 1, Len(list) - 1)), list[Len(list)])

\* per-category cap of server.js
CapServer == 30

\* the same selection without its final slice
selectNewsUncapped(category, combined) ==
    IF combined.threw THEN Raise
    ELSE LET Matches(article) == matchesCategory(article, category)
             combinedArticles == SelectSeq(combined.value, Matches)
             uniqueArticles == removeDuplicatesServer(combinedArticles)
         IN IF uniqueArticles.threw THEN Raise
            ELSE Ret(sortNewestFirst(uniqueArticles.value))

\* getNewsByCategory after its Promise.all: filter, deduplicate, sort, cap
selectNewsByCategory(category, combined) ==
    IF combined.threw THEN Raise
    ELSE LET Matches(article) == matchesCategory(article, category)
             combinedArticles == SelectSeq(combined.value, Matches)
             uniqueArticles == removeDuplicatesServer(combinedArticles)
         IN IF uniqueArticles.threw THEN Raise
            ELSE Ret(slice(sortNewestFirst(uniqueArticles.value), CapServer))

getNewsByCategoryServer(category, web, now) ==
    selectNewsByCategory(category,
        combineArticles(scrapeAllSites(web, now),
                        fetchGNewsKenyan(CATEGORY_QUERIES(category), web.gnews)))

\* the body of a response; unused fields are empty
Body(success, kind, category, items, lists, stamp) ==
    [success |-> success, kind |-> kind, category |-> category, items |-> items,
     count |-> Len(items), lists |-> lists, lastUpdated |-> stamp,
     validCategories |-> <<>>, error |-> "", header |-> ""]

Response(status, body) == [status |-> status, body |-> body]

InvalidCategory(keys) ==
    Response(400, [Body(FALSE, "invalid", "", <<>>, <<>>, 0) EXCEPT !.validCategories = keys])

ServerError == Response(500, Body(FALSE, "error", "", <<>>, <<>>, 0))

\* server.js GET /api/news/:category after a cache miss
categoryResponseServer(category, web, now) ==
    LET found == getNewsByCategoryServer(category, web, now)
    IN IF found.threw THEN ServerError
       ELSE Response(200, Body(TRUE, "category", category, found.value, <<>>, now))

\* server.js GET /api/news after a cache miss
allNewsResponseServer(web, now) ==
    LET results == promiseAll([i \in DOMAIN CategoryKeysServer |->
                                 getNewsByCategoryServer(CategoryKeysServer[i], web, now)])
    IN IF results.threw THEN ServerError
       ELSE LET uniqueArticles == removeDuplicatesServer(flat(results.value))
            IN IF uniqueArticles.threw THEN ServerError
               ELSE Response(200, Body(TRUE, "all", "",
                                       sortNewestFirst(uniqueArticles.value), <<>>, now))

(***************************************************************************)
(* Category Router and aggregation of part_006, news variant               *)
(* (lines 41-50, 139-266).                                                 *)
(***************************************************************************)
CategoryKeys006 == <<"general", "politics", "business", "sports", "entertainment",
                     "technology", "health", "lifestyle">>

\* lower-case names of properties every object inherits from Object.prototype
ObjectPrototypeKeys == {"constructor", "__proto__"}

\* truthiness of NEWS_CATEGORIES[category]: own and inherited properties
NEWS_CATEGORIES_has(category) ==
    category \in Range(CategoryKeys006) \cup ObjectPrototypeKeys

\* per-category cap of part_006, also the threshold for the second adapter
Cap006 == 10

getNewsByCategory006(category, web) ==
    IF ~NEWS_CATEGORIES_has(category) THEN Ret(<<>>)
    ELSE LET gnews == getGNewsKenyanContent(category, web.gnews)
         IN IF gnews.threw THEN Raise
            ELSE LET newsapi == IF Len(gnews.value) < Cap006
                                THEN getNewsAPIKenyanContent(category, web.newsapi)
                                ELSE Ret(<<>>)
                 IN IF newsapi.threw THEN Raise
                    ELSE LET uniqueKenyan == removeDuplicatesPart006(gnews.value \o newsapi.value)
                         IN IF uniqueKenyan.threw THEN Raise
                            ELSE Ret(slice(uniqueKenyan.value, Cap006))

ServerError006 == Response(500, Body(FALSE, "error", "", <<>>, <<>>, 0))

\* part_006 GET /api/news/:category after a cache miss
categoryResponse006(category, web, now) ==
    LET news == getNewsByCategory006(category, web)
    IN IF news.threw THEN ServerError006
       ELSE Response(200, Body(TRUE, "category", category, news.value, <<>>, now))

\* part_006 GET /api/news after a cache miss: Promise.allSettled
allNewsResponse006(web, now) ==
    LET lists == [i \in DOMAIN CategoryKeys006 |->
                    LET r == getNewsByCategory006(CategoryKeys006[i], web)
                    IN [category |-> CategoryKeys006[i],
                        articles |-> IF r.threw THEN <<>> ELSE r.value]]
    IN Response(200, Body(TRUE, "all", "", <<>>, lists, now))

\* every Article a response carries, over all its categories
ResponseArticles(body) ==
    body.items \o flat([i \in DOMAIN body.lists |-> body.lists[i].articles])

(***************************************************************************)
(* Aggregation of server.js, /api/trends variant (lines 240-317).          *)
(***************************************************************************)
TrendCategories ==
    <<[key |-> "kenya", type |-> "pytrends"],
      [key |-> "worldwide", type |-> "pytrends"],
      [key |-> "googletrends", type |-> "pytrends"],
      [key |-> "news", type |-> "news"],
      [key |-> "technology", type |-> "news"],
      [key |-> "entertainment", type |-> "news"],
      [key |-> "sports", type |-> "news"],
      [key |-> "lifestyle", type |-> "rss"],
      [key |-> "business", type |-> "news"],
      [key |-> "health", type |-> "rss"],
      [key |-> "science", type |-> "rss"],
      [key |-> "fashion", type |-> "rss"]>>

\* the try block of one fetchPromises callback; getGoogleTrendsFromPython is
\* not defined anywhere in the file, so calling it raises a ReferenceError
fetchTrendsTry(category, web) ==
    CASE category.type = "pytrends" -> Raise
      [] category.type = "news" -> getNewsTopics(web.newsapi)
      [] category.type = "rss" -> fetchRSSFeed(web.rss)
      [] OTHER -> Ret(<<>>)

\* results[category.key] after the callback, its catch included
fetchTrends(category, web) ==
    LET t == fetchTrendsTry(category, web)
    IN IF t.threw THEN <<>> ELSE t.value

\* the response object built from results once every callback has settled:
\* ...results spreads the keys in the order they were assigned, keys[n]
\* being the n-th category whose callback wrote results[category.key]
collectTrends(categories, keys, results, now) ==
    Response(200, Body(TRUE, "trends", "", <<>>,
                       [n \in DOMAIN keys |->
                          [category |-> categories[keys[n]].key,
                           articles |-> results[keys[n]]]],
                       now))

\* the keys of results when the callbacks finish in list order
ListOrder(categories) == [i \in DOMAIN categories |-> i]

\* server.js GET /api/trends after a cache miss, the upstream calls of one
\* round finishing in list order
trendsResponseServer(web, now) ==
    collectTrends(TrendCategories, ListOrder(TrendCategories),
                  [i \in DOMAIN TrendCategories |-> fetchTrends(TrendCategories[i], web)],
                  now)

(***************************************************************************)
(* Aggregation of part_002 (lines 40-117, 285-324) and of part_006          *)
(* (lines 527-561), /api/trends variants.                                  *)
(***************************************************************************)
KeepTrend002(t) == ~FalsyTitle(t) /\ t # DailySearchTrends

\* getGoogleTrendsRSS on a feed whose items carry a title only: no search
\* terms in a description and no CDATA section
getGoogleTrendsRSS002Try(o) ==
    IF o.kind # "ok" THEN Raise
    ELSE Ret(slice(SelectSeq(uniq(SelectSeq(titlesOf(o.items), KeepTrend002)),
                             LAMBDA t : Len(t) > 2),
                   TrendCap))

getGoogleTrendsRSS002(o) == OnCatchEmpty(getGoogleTrendsRSS002Try(o))

TrendCategories002 ==
    <<[key |-> "kenya", type |-> "google_trends_rss"],
      [key |-> "worldwide", type |-> "google_trends_rss"],
      [key |-> "googletrends", type |-> "google_trends_rss"],
      [key |-> "news", type |-> "newsapi"],
      [key |-> "technology", type |-> "newsapi"],
      [key |-> "entertainment", type |-> "newsapi"],
      [key |-> "sports", type |-> "newsapi"],
      [key |-> "lifestyle", type |-> "rss"],
      [key |-> "business", type |-> "newsapi"],
      [key |-> "health", type |-> "rss"],
      [key |-> "science", type |-> "rss"],
      [key |-> "fashion", type |-> "rss"]>>

\* the adapter call of one loop iteration; getNewsAPITopics and fetchRSSFeed
\* are those of server.js
fetchTrends002Try(category, o) ==
    CASE category.type = "google_trends_rss" -> getGoogleTrendsRSS002(o)
      [] category.type = "newsapi" -> getNewsTopics(o)
      [] category.type = "rss" -> fetchRSSFeed(o)
      [] OTHER -> Ret(<<>>)

TrendCategories006 ==
    <<[key |-> "kenya", type |-> "google", region |-> "KE"],
      [key |-> "worldwide", type |-> "google", region |-> "US"],
      [key |-> "googletrends", type |-> "google", region |-> "US"],
      [key |-> "news", type |-> "news", region |-> ""],
      [key |-> "technology", type |-> "news", region |-> ""],
      [key |-> "entertainment", type |-> "news", region |-> ""],
      [key |-> "sports", type |-> "news", region |-> ""],
      [key |-> "lifestyle", type |-> "news", region |-> ""],
      [key |-> "business", type |-> "news", region |-> ""],
      [key |-> "health", type |-> "news", region |-> ""],
      [key |-> "science", type |-> "news", region |-> ""],
      [key |-> "fashion", type |-> "news", region |-> ""]>>

\* the first adapter call of one fetchPromises callback
fetchTrends006Try(category, o) ==
    IF category.type = "google" THEN scrapeGoogleTrends006(category.region, o.html, o.rss)
    ELSE getNewsTopics006(o.api, o.html, o.rss)

(***************************************************************************)
(* Aggregation of part_003 (lines 49-238): Kenyan feeds and NewsAPI, split  *)
(* into kenya.news and worldwide.news.                                     *)
(***************************************************************************)
kenyanKeywords ==
    {<<"k","e","n","y","a">>,
     <<"n","a","i","r","o","b","i">>,
     <<"m","o","m","b","a","s","a">>,
     <<"k","i","s","u","m","u">>,
     <<"n","a","k","u","r","u">>,
     <<"r","u","t","o">>,
     <<"r","a","i","l","a">>,
     <<"u","h","u","r","u">>,
     <<"m","u","d","a","v","a","d","i">>,
     <<"r","i","g","a","t","h","i">>,
     <<"c","o","u","n","t","y">>,
     <<"m","p">>,
     <<"s","e","n","a","t","o","r">>,
     <<"g","o","v","e","r","n","o","r">>,
     <<"k","e","m","s","a">>,
     <<"k","p","l","c">>,
     <<"k","e","n","g","e","n">>,
     <<"s","a","f","a","r","i","c","o","m">>,
     <<"e","q","u","i","t","y">>,
     <<"k","c","b">>}

\* a missing title or description in a string concatenation
toText(t) == IF t = Undefined THEN <<"n","u","l","l">> ELSE t

\* the keyword test without the lower-casing of the text
isKenyanContentExact(title, content) ==
    LET text == toText(title) \o <<" ">> \o toText(content)
    IN \E keyword \in kenyanKeywords : includes(text, keyword)

isKenyanContent(title, content) ==
    LET text == toLowerCase(toText(title) \o <<" ">> \o toText(content))
    IN \E keyword \in kenyanKeywords : includes(text, keyword)

KENYAN_NEWS_SOURCES ==
    <<[name |-> "Daily Nation", category |-> "general"],
      [name |-> "The Standard", category |-> "general"],
      [name |-> "The Star", category |-> "general"],
      [name |-> "Business Daily", category |-> "business"],
      [name |-> "Citizen TV", category |-> "general"],
      [name |-> "Kenya News Agency", category |-> "general"]>>

\* item.title || '', item.contentSnippet || item.content || ''
orEmpty(t) == IF FalsyTitle(t) THEN <<>> ELSE t

FeedCap003 == 30

Cap003 == 25

\* the items one source adds to newsItems; a feed that fails adds none
feedItems003(source, o) ==
    IF o.kind # "ok" THEN <<>>
    ELSE LET Keep(item) == isKenyanContent(orEmpty(item.title), orEmpty(item.content))
             kept == SelectSeq(o.items, Keep)
         IN [i \in DOMAIN kept |->
               [title |-> orEmpty(kept[i].title), link |-> kept[i].link,
                content |-> orEmpty(kept[i].content), category |-> source.category,
                pubDate |-> kept[i].publishedAt, from |-> source.name]]

fetchKenyanNews(feeds) ==
    slice(flat([i \in DOMAIN KENYAN_NEWS_SOURCES |->
                  feedItems003(KENYAN_NEWS_SOURCES[i], feeds[i])]),
          FeedCap003)

\* one of the two top-headlines calls, with its own try and catch
headlines003(o, category) ==
    IF o.kind # "ok" THEN <<>>
    ELSE [i \in DOMAIN o.items |->
            [title |-> o.items[i].title, link |-> o.items[i].link,
             content |-> o.items[i].content, category |-> category,
             pubDate |-> o.items[i].publishedAt, from |-> "newsapi"]]

getNewsAPITopics003(kenya, global) ==
    IF kenya.kind = "nokey" THEN <<>>
    ELSE headlines003(kenya, "Kenyan News") \o headlines003(global, "Global News")

\* the filter of kenyanFromAPI
kenyanFilter003(item) ==
    isKenyanContent(item.title, item.content) \/ item.category = "Kenyan News"

\* a global filter that passes the Articles either test lets through
globalFilterEither(item) ==
    ~isKenyanContent(item.title, item.content) \/ item.category # "Kenyan News"

\* the filter of globalFromAPI
globalFilter003(item) ==
    ~isKenyanContent(item.title, item.content) /\ item.category # "Kenyan News"

\* part_003 GET /api/trends after a cache miss
trendsResponse003(web, now) ==
    LET kenyanResults == fetchKenyanNews(web.feeds)
        apiResults == getNewsAPITopics003(web.kenya, web.global)
        kenyanFromAPI == SelectSeq(apiResults, kenyanFilter003)
        globalFromAPI == SelectSeq(apiResults, globalFilter003)
    IN Response(200, Body(FALSE, "trends", "", <<>>,
                          <<[category |-> "kenya",
                             articles |-> slice(kenyanResults \o kenyanFromAPI, Cap003)],
                            [category |-> "worldwide",
                             articles |-> slice(globalFromAPI, Cap003)]>>,
                          now))

(***************************************************************************)
(* Aggregation of part_004 (lines 43-141): a loop of one adapter call at a  *)
(* time, mock data wherever a list would be empty.                         *)
(***************************************************************************)
mockData004 ==
    [k \in MockKeys |->
        CASE k = "kenya" ->
            <<<<"A","f","r","o","b","e","a","t","s">>,
              <<"N","a","i","r","o","b","i"," ","F","a","s","h","i","o","n">>,
              <<"B","e","n","g","a"," ","M","u","s","i","c">>,
              <<"K","e","n","y","a","n"," ","S","t","a","r","t","u","p","s">>,
              <<"S","a","f","a","r","i","c","o","m">>,
              <<"M","-","P","e","s","a">>,
              <<"K","e","n","y","a"," ","M","a","r","a","t","h","o","n">>,
              <<"T","e","c","h"," ","H","u","b","s">>,
              <<"T","o","u","r","i","s","m"," ","K","e","n","y","a">>,
              <<"K","i","p","e","p","e","o">>>>
          [] k = "worldwide" ->
            <<<<"C","l","i","m","a","t","e"," ","A","c","t","i","o","n">>,
              <<"A","I"," ","R","e","v","o","l","u","t","i","o","n">>,
              <<"M","e","t","a","v","e","r","s","e">>,
              <<"C","r","y","p","t","o"," ","T","r","e","n","d","s">>,
              <<"G","l","o","b","a","l"," ","H","e","a","l","t","h">>,
              <<"S","u","s","t","a","i","n","a","b","l","e"," ","T","e","c","h">>,
              <<"D","i","g","i","t","a","l"," ","N","o","m","a","d","s">>,
              <<"S","p","a","c","e"," ","T","o","u","r","i","s","m">>,
              <<"5","G"," ","E","x","p","a","n","s","i","o","n">>,
              <<"Q","u","a","n","t","u","m"," ","L","e","a","p">>>>
          [] k = "xtrends" ->
            <<<<"#","X","S","p","a","c","e","s">>,
              <<"E","l","o","n"," ","M","u","s","k">>,
              <<"#","C","r","y","p","t","o">>,
              <<"S","p","a","c","e","X"," ","L","a","u","n","c","h">>,
              <<"#","A","I">>,
              <<"N","e","u","r","a","l","i","n","k">>,
              <<"#","W","e","b","3">>,
              <<"S","t","a","r","l","i","n","k">>,
              <<"#","T","e","c","h","T","a","l","k">>,
              <<"M","a","r","s"," ","M","i","s","s","i","o","n">>>>
          [] k = "news" ->
            <<<<"G","l","o","b","a","l"," ","P","o","l","i","t","i","c","s">>,
              <<"E","l","e","c","t","i","o","n","s"," ","2","0","2","5">>,
              <<"C","l","i","m","a","t","e"," ","S","u","m","m","i","t">>,
              <<"E","c","o","n","o","m","i","c"," ","R","e","c","o","v","e","r","y">>,
              <<"V","a","c","c","i","n","e"," ","U","p","d","a","t","e","s">>,
              <<"B","r","e","a","k","i","n","g"," ","N","e","w","s">>,
              <<"I","n","t","e","r","n","a","t","i","o","n","a","l"," ","T","r","a","d","e">>,
              <<"H","u","m","a","n"," ","R","i","g","h","t","s">>,
              <<"P","o","l","i","c","y"," ","C","h","a","n","g","e","s">>,
              <<"W","a","r"," ","U","p","d","a","t","e","s">>>>
          [] k = "technology" ->
            <<<<"Q","u","a","n","t","u","m"," ","C","o","m","p","u","t","i","n","g">>,
              <<"W","e","b","3">>,
              <<"A","R","/","V","R">>,
              <<"5","G"," ","N","e","t","w","o","r","k","s">>,
              <<"B","l","o","c","k","c","h","a","i","n">>,
              <<"A","I"," ","E","t","h","i","c","s">>,
              <<"C","y","b","e","r","s","e","c","u","r","i","t","y">>,
              <<"C","l","o","u","d"," ","C","o","m","p","u","t","i","n","g">>,
              <<"I","o","T"," ","D","e","v","i","c","e","s">>,
              <<"R","o","b","o","t","i","c","s">>>>
          [] k = "entertainment" ->
            <<<<"A","f","r","o","P","o","p">>,
              <<"N","e","t","f","l","i","x"," ","H","i","t","s">>,
              <<"G","r","a","m","m","y"," ","B","u","z","z">>,
              <<"K","-","D","r","a","m","a">>,
              <<"H","o","l","l","y","w","o","o","d"," ","G","o","s","s","i","p">>,
              <<"B","o","l","l","y","w","o","o","d"," ","T","r","e","n","d","s">>,
              <<"M","u","s","i","c"," ","F","e","s","t","i","v","a","l","s">>,
              <<"S","t","r","e","a","m","i","n","g"," ","W","a","r","s">>,
              <<"O","s","c","a","r"," ","P","r","e","d","i","c","t","i","o","n","s">>,
              <<"G","a","m","i","n","g"," ","C","u","l","t","u","r","e">>>>
          [] k = "sports" ->
            <<<<"K","e","n","y","a"," ","M","a","r","a","t","h","o","n">>,
              <<"P","r","e","m","i","e","r"," ","L","e","a","g","u","e">>,
              <<"N","B","A"," ","F","i","n","a","l","s">>,
              <<"O","l","y","m","p","i","c","s"," ","2","0","2","6">>,
              <<"R","u","g","b","y"," ","S","e","v","e","n","s">>,
              <<"C","r","i","c","k","e","t"," ","I","P","L">>,
              <<"E","s","p","o","r","t","s">>,
              <<"F","1"," ","R","a","c","i","n","g">>,
              <<"A","t","h","l","e","t","i","c","s">>,
              <<"S","o","c","c","e","r"," ","T","r","a","n","s","f","e","r","s">>>>
          [] k = "lifestyle" ->
            <<<<"M","i","n","i","m","a","l","i","s","m">>,
              <<"S","u","s","t","a","i","n","a","b","l","e"," ","L","i","v","i","n","g">>,
              <<"T","r","a","v","e","l"," ","T","r","e","n","d","s">>,
              <<"W","e","l","l","n","e","s","s"," ","R","e","t","r","e","a","t","s">>,
              <<"V","e","g","a","n"," ","R","e","c","i","p","e","s">>,
              <<"D","I","Y"," ","P","r","o","j","e","c","t","s">>,
              <<"H","o","m","e"," ","D","e","c","o","r">>,
              <<"F","i","t","n","e","s","s"," ","C","h","a","l","l","e","n","g","e","s">>,
              <<"M","i","n","d","f","u","l","n","e","s","s">>,
              <<"E","c","o"," ","F","a","s","h","i","o","n">>>>
          [] k = "business" ->
            <<<<"S","t","a","r","t","u","p"," ","F","u","n","d","i","n","g">>,
              <<"C","r","y","p","t","o"," ","M","a","r","k","e","t","s">>,
              <<"S","t","o","c","k"," ","M","a","r","k","e","t">>,
              <<"E","n","t","r","e","p","r","e","n","e","u","r","s","h","i","p">>,
              <<"R","e","m","o","t","e"," ","W","o","r","k">>,
              <<"E","-","c","o","m","m","e","r","c","e"," ","B","o","o","m">>,
              <<"F","i","n","t","e","c","h">>,
              <<"S","u","p","p","l","y"," ","C","h","a","i","n">>,
              <<"M","e","r","g","e","r","s">>,
              <<"G","i","g"," ","E","c","o","n","o","m","y">>>>
          [] k = "health" ->
            <<<<"M","e","n","t","a","l"," ","H","e","a","l","t","h">>,
              <<"T","e","l","e","m","e","d","i","c","i","n","e">>,
              <<"N","u","t","r","i","t","i","o","n"," ","T","r","e","n","d","s">>,
              <<"F","i","t","n","e","s","s"," ","A","p","p","s">>,
              <<"V","a","c","c","i","n","e"," ","R","o","l","l","o","u","t">>,
              <<"W","e","l","l","n","e","s","s"," ","T","e","c","h">>,
              <<"A","g","i","n","g"," ","R","e","s","e","a","r","c","h">>,
              <<"S","l","e","e","p"," ","S","c","i","e","n","c","e">>,
              <<"P","a","n","d","e","m","i","c"," ","R","e","c","o","v","e","r","y">>,
              <<"Y","o","g","a"," ","T","r","e","n","d","s">>>>
          [] k = "science" ->
            <<<<"S","p","a","c","e"," ","E","x","p","l","o","r","a","t","i","o","n">>,
              <<"C","l","i","m","a","t","e"," ","T","e","c","h">>,
              <<"Q","u","a","n","t","u","m"," ","P","h","y","s","i","c","s">>,
              <<"B","i","o","t","e","c","h">>,
              <<"A","I"," ","R","e","s","e","a","r","c","h">>,
              <<"R","e","n","e","w","a","b","l","e"," ","E","n","e","r","g","y">>,
              <<"G","e","n","o","m","i","c","s">>,
              <<"A","s","t","r","o","p","h","y","s","i","c","s">>,
              <<"N","a","n","o","t","e","c","h">>,
              <<"D","e","e","p"," ","S","e","a"," ","E","x","p","l","o","r","a","t","i","o","n">>>>
          [] k = "fashion" ->
            <<<<"S","u","s","t","a","i","n","a","b","l","e"," ","F","a","s","h","i","o","n">>,
              <<"S","t","r","e","e","t","w","e","a","r">>,
              <<"A","t","h","l","e","i","s","u","r","e">>,
              <<"V","i","n","t","a","g","e"," ","T","r","e","n","d","s">>,
              <<"D","e","s","i","g","n","e","r"," ","C","o","l","l","a","b","s">>,
              <<"F","a","s","h","i","o","n"," ","W","e","e","k">>,
              <<"E","c","o"," ","F","a","b","r","i","c","s">>,
              <<"M","i","n","i","m","a","l","i","s","t"," ","S","t","y","l","e">>,
              <<"B","o","l","d"," ","A","c","c","e","s","s","o","r","i","e","s">>,
              <<"C","u","l","t","u","r","a","l"," ","P","r","i","n","t","s">>>>]

mockOrEmpty004(category) == IF category \in MockKeys THEN mockData004[category] ELSE <<>>

\* article.title.split raises on a missing title
getNewsTopics004Try(o) ==
    IF o.kind # "ok" THEN Raise
    ELSE IF \E i \in DOMAIN o.items : o.items[i].title = Undefined THEN Raise
    ELSE Ret(slice(SelectSeq([i \in DOMAIN o.items |-> trim(splitFirst(o.items[i].title, SepDash))],
                             LAMBDA t : Len(t) > 5 /\ Len(t) < 60),
                   TrendCap))

getNewsTopics004(category, o) ==
    LET t == getNewsTopics004Try(o)
    IN IF t.threw THEN Ret(mockOrEmpty004(category)) ELSE t

\* trend.name.length raises on a missing name
getXTrends004Try(o) ==
    IF o.kind # "ok" THEN Raise
    ELSE IF \E i \in DOMAIN o.items : o.items[i].title = Undefined THEN Raise
    ELSE Ret(slice(SelectSeq(titlesOf(o.items), LAMBDA t : Len(t) > 0), TrendCap))

getXTrends004(o) ==
    LET t == getXTrends004Try(o)
    IN IF t.threw THEN Ret(mockData004["xtrends"]) ELSE t

TrendCategories004 ==
    <<[key |-> "kenya", code |-> "KE", type |-> "mock"],
      [key |-> "worldwide", code |-> "", type |-> "mock"],
      [key |-> "xtrends", code |-> "", type |-> "x"],
      [key |-> "news", code |-> "general", type |-> "news"],
      [key |-> "technology", code |-> "technology", type |-> "news"],
      [key |-> "entertainment", code |-> "entertainment", type |-> "news"],
      [key |-> "sports", code |-> "sports", type |-> "news"],
      [key |-> "lifestyle", code |-> "lifestyle", type |-> "news"],
      [key |-> "business", code |-> "business", type |-> "news"],
      [key |-> "health", code |-> "health", type |-> "news"],
      [key |-> "science", code |-> "science", type |-> "news"],
      [key |-> "fashion", code |-> "fashion", type |-> "news"]>>

\* results[category.key] of one loop iteration
fetchTrends004(category, web) ==
    LET trends == CASE category.type = "mock" -> mockOrEmpty004(category.key)
                    [] category.type = "news" -> getNewsTopics004(category.code, web.newsapi).value
                    [] category.type = "x" -> getXTrends004(web.x).value
                    [] OTHER -> <<>>
    IN IF Len(trends) > 0 THEN trends ELSE mockOrEmpty004(category.key)

\* part_004 GET /api/trends after a cache miss
trendsResponse004(web, now) ==
    collectTrends(TrendCategories004, ListOrder(TrendCategories004),
                  [i \in DOMAIN TrendCategories004 |-> fetchTrends004(TrendCategories004[i], web)],
                  now)

(***************************************************************************)
(* GET /api/export of server.js (320-369) and of part_004 (153-178).  The  *)
(* CSV text is kept as its header line and its rows, one record per line.  *)
(***************************************************************************)
ErrorBody(message) == [Body(FALSE, "error", "", <<>>, <<>>, 0) EXCEPT !.error = message]

CsvBody(header, rows) == [Body(TRUE, "csv", "", rows, <<>>, 0) EXCEPT !.header = header]

\* category.charAt(0).toUpperCase() + category.slice(1)
capitalize(key) ==
    CASE key = "kenya" -> "Kenya" [] key = "worldwide" -> "Worldwide"
      [] key = "googletrends" -> "Googletrends" [] key = "xtrends" -> "Xtrends"
      [] key = "news" -> "News" [] key = "technology" -> "Technology"
      [] key = "entertainment" -> "Entertainment" [] key = "sports" -> "Sports"
      [] key = "lifestyle" -> "Lifestyle" [] key = "business" -> "Business"
      [] key = "health" -> "Health" [] key = "science" -> "Science"
      [] key = "fashion" -> "Fashion" [] OTHER -> key

\* keyword.replace(/,/g, ';')
replaceCommas(keyword) ==
    [i \in DOMAIN keyword |-> IF keyword[i] = "," THEN ";" ELSE keyword[i]]

\* Object.entries(trends) without the named keys, flatMap over the lists
exportRecords(trends) ==
    flat([n \in DOMAIN trends.lists |->
            [i \in DOMAIN trends.lists[n].articles |->
               [category |-> capitalize(trends.lists[n].category),
                keyword |-> replaceCommas(trends.lists[n].articles[i]),
                timestamp |-> trends.lastUpdated]]])

exportResponseServer(hit, trends) ==
    IF ~hit \/ ~trends.success
    THEN Response(404, ErrorBody("No trends data available. Please fetch trends first."))
    ELSE IF Len(exportRecords(trends)) = 0
    THEN Response(404, ErrorBody("No trend data to export"))
    ELSE Response(200, CsvBody("Category,Keyword,Timestamp", exportRecords(trends)))

exportRecords004(trends) ==
    flat([n \in DOMAIN trends.lists |->
            [i \in DOMAIN trends.lists[n].articles |->
               [category |-> trends.lists[n].category,
                keyword |-> trends.lists[n].articles[i]]]])

\* cache.get('trends') || { success: false, error: 'No trends available' }
exportResponse004(hit, trends) ==
    IF ~hit \/ ~trends.success
    THEN Response(400, ErrorBody("No trends available"))
    ELSE Response(200, CsvBody("Category,Keyword", exportRecords004(trends)))

exportResponse(v, hit, trends) ==
    IF v = "part_004" THEN exportResponse004(hit, trends)
    ELSE exportResponseServer(hit, trends)

(***************************************************************************)
(* Request handling and Result Cache.  NodeCache({ stdTTL: 600 }): set     *)
(* stores the value with expiry now + TTL, get returns it until the expiry *)
(* has passed and deletes it afterwards.                                   *)
(***************************************************************************)
TTL == 600

AppVariants == {"server", "part_006", "server_trends"}

EndpointsOf(v) ==
    IF v \in {"server_trends", "part_003", "part_004"} THEN {"trends"}
    ELSE {"news", "category"}

\* req.params.category values tried
SampleParams == {"general", "Politics", "news", "bogus", "constructor", "__proto__"}

\* req.params.category.toLowerCase()
paramToLowerCase(p) == IF p = "Politics" THEN "politics" ELSE p

cacheKeyOf(v, endpoint, category) ==
    CASE endpoint = "trends" -> <<"trends", "">>
      [] endpoint = "news" -> IF v = "server" THEN <<"news-all", "">> ELSE <<"all-news", "">>
      [] OTHER -> IF v = "server" THEN <<"news-category-", category>>
                  ELSE <<"news-", category>>

\* the keys the handlers of a variant can use
KeysOf(v) ==
    {cacheKeyOf(v, e, paramToLowerCase(p)) : e \in EndpointsOf(v), p \in SampleParams}

NoBody == Body(FALSE, "none", "", <<>>, <<>>, 0)

Absent == [present |-> FALSE, value |-> NoBody, expires |-> 0]

\* a cache whose entries expire one instant early
cacheHasBefore(c, key, now) == c[key].present /\ c[key].expires > now

\* cache.get(key): the stored value while data.t >= now
cacheHas(c, key, now) == c[key].present /\ c[key].expires >= now

\* the cache after cache.get(key): an expired entry is deleted
cacheAfterGet(c, key, now) ==
    IF c[key].present /\ c[key].expires < now THEN [c EXCEPT ![key] = Absent] ELSE c

\* a set that stores the value with no time to live
cacheSetExpired(c, key, value, now) ==
    [c EXCEPT ![key] = [present |-> TRUE, value |-> value, expires |-> now]]

\* cache.set(key, value)
cacheAfterSet(c, key, value, now) ==
    [c EXCEPT ![key] = [present |-> TRUE, value |-> value, expires |-> now + TTL]]

\* the category names a variant enumerates
EnumeratedCategories(v) == IF v = "server" THEN CategoryKeysServer ELSE CategoryKeys006

\* the validation at the top of GET /api/news/:category
acceptsCategory(v, category) ==
    IF v = "server" THEN category \in Range(CategoryKeysServer)
    ELSE NEWS_CATEGORIES_has(category)

\* the response built after a cache miss, once the round has settled
freshResponse(v, endpoint, category, web, now) ==
    CASE endpoint = "trends" /\ v = "part_003" -> trendsResponse003(web, now)
      [] endpoint = "trends" /\ v = "part_004" -> trendsResponse004(web, now)
      [] endpoint = "trends" /\ v \notin {"part_003", "part_004"} ->
            trendsResponseServer(web, now)
      [] endpoint = "news" /\ v = "server" -> allNewsResponseServer(web, now)
      [] endpoint = "news" /\ v # "server" -> allNewsResponse006(web, now)
      [] endpoint = "category" /\ v = "server" -> categoryResponseServer(category, web, now)
      [] OTHER -> categoryResponse006(category, web, now)

(***************************************************************************)
(* Sample titles and links the inputs are drawn from.                      *)
(***************************************************************************)
TitleRuto == <<"R","u","t","o"," ","v","i","s","i","t","s"," ","M","o","m","b","a","s","a">>

TitleRutoLower == <<"r","u","t","o"," ","v","i","s","i","t","s"," ","m","o","m","b","a","s","a","!","!">>

TitleRutoNow == <<"R","u","t","o"," ","v","i","s","i","t","s"," ","M","o","m","b","a","s","a"," ","n","o","w">>

TitleKcb == <<"K","C","B"," ","p","o","s","t","s"," ","p","r","o","f","i","t">>

TitleShort == <<"H","i"," ","t","h","e","r","e">>

TitleShortBang == <<"h","i"," ","t","h","e","r","e","!">>

\* similar to TitleRutoNow above the threshold and to TitleRuto below it
TitleRutoNowXyz == <<"R","u","t","o"," ","v","i","s","i","t","s"," ","M","o","m","b","a","s","a"," ","n","o","w"," ","x","y","z">>

SampleTitles == {TitleRuto, TitleRutoLower, TitleRutoNow, TitleKcb,
                 TitleShort, TitleShortBang, <<>>, Undefined}

LinkA == "https://a.co/1"

LinkB == "https://b.co/2"

LinkC == "https://c.co/3"

SampleLinks == {LinkA, LinkB, NoLink}

\* the Articles the Deduplicator's inputs are drawn from
SampleArticles ==
    {[title |-> TitleRuto, link |-> LinkA], [title |-> TitleRuto, link |-> LinkB],
     [title |-> TitleRutoLower, link |-> LinkB], [title |-> TitleRutoNow, link |-> LinkB],
     [title |-> TitleRutoNowXyz, link |-> LinkC],
     [title |-> TitleKcb, link |-> LinkA],
     [title |-> TitleShort, link |-> LinkA], [title |-> TitleShortBang, link |-> LinkB],
     [title |-> <<>>, link |-> LinkA], [title |-> Undefined, link |-> LinkA],
     [title |-> TitleRuto, link |-> NoLink], [title |-> TitleKcb, link |-> ""]}

\* longest input sequence given to the Deduplicator
MaxArticles == 3

SeqsUpTo(S, n) == UNION {[1..k -> S] : k \in 0..n}

\* longest payload of one upstream call
MaxPage == 1

TitleKcbDash == <<"K","C","B"," ","p","r","o","f","i","t"," ","u","p"," ","-"," ","N","a","t","i","o","n">>

RawItems ==
    {[title |-> TitleRuto, link |-> LinkA, publishedAt |-> 0],
     [title |-> TitleKcbDash, link |-> LinkB, publishedAt |-> 0],
     [title |-> Undefined, link |-> LinkA, publishedAt |-> 0],
     [title |-> TitleShort, link |-> NoLink, publishedAt |-> 0],
     [title |-> DailySearchTrends, link |-> LinkA, publishedAt |-> 0]}

Failed(kind) == [kind |-> kind, items |-> <<>>]

Ok(items) == [kind |-> "ok", items |-> items]

\* outcomes of a call to a JSON API that needs a key
ApiOutcomes(pages) == {Failed("nokey"), Failed("error"), Failed("malformed")}
                      \cup {Ok(pg) : pg \in pages}

\* outcomes of a call that fetches an HTML page or an RSS feed
PageOutcomes(pages) == {Failed("error")} \cup {Ok(pg) : pg \in pages}

NotCalled == Failed("error")

\* what each scraped site serves when it is up: one card per site
SitePage(i) ==
    <<[title |-> IF i % 2 = 1 THEN TitleRuto ELSE TitleKcb,
       link |-> IF i <= 4 THEN LinkA ELSE LinkB, publishedAt |-> 0]>>

\* the items the upstream pages of a request are drawn from
PipelineItems ==
    RawItems \cup {[title |-> TitleKcb, link |-> NoLink, publishedAt |-> 0],
                   [title |-> TitleKcbDash, link |-> LinkB, publishedAt |-> 1]}

PipelinePages == SeqsUpTo(PipelineItems, MaxPage)

NoSites == [i \in DOMAIN Sites |-> NotCalled]

WebDown == [sites |-> NoSites, gnews |-> NotCalled, newsapi |-> NotCalled, rss |-> NotCalled]

\* two of the sites and every API and feed serving
WebUp ==
    [sites |-> [i \in DOMAIN Sites |-> IF i \in {1, 6} THEN Ok(SitePage(i)) ELSE NotCalled],
     gnews |-> Ok(<<[title |-> TitleRutoNow, link |-> LinkB, publishedAt |-> 0]>>),
     newsapi |-> Ok(<<[title |-> TitleKcbDash, link |-> LinkA, publishedAt |-> 0]>>),
     rss |-> Ok(<<[title |-> TitleKcb, link |-> LinkB, publishedAt |-> 0]>>)]

\* the sets of sites that are up together
SiteSets == {{}, {1}, {6, 7}, DOMAIN Sites}

\* a page of CapServer + 1 articles whose titles share no character and whose
\* links differ
BigChars ==
    <<"a", "b", "c", "d", "e", "f", "g", "h", "i", "j", "k", "l", "m", "n", "o", "p",
      "q", "r", "s", "t", "u", "v", "w", "x", "y", "z", "0", "1", "2", "3", "4">>

BigLinks ==
    <<"https://n.co/1", "https://n.co/2", "https://n.co/3", "https://n.co/4",
      "https://n.co/5", "https://n.co/6", "https://n.co/7", "https://n.co/8",
      "https://n.co/9", "https://n.co/10", "https://n.co/11", "https://n.co/12",
      "https://n.co/13", "https://n.co/14", "https://n.co/15", "https://n.co/16",
      "https://n.co/17", "https://n.co/18", "https://n.co/19", "https://n.co/20",
      "https://n.co/21", "https://n.co/22", "https://n.co/23", "https://n.co/24",
      "https://n.co/25", "https://n.co/26", "https://n.co/27", "https://n.co/28",
      "https://n.co/29", "https://n.co/30", "https://n.co/31">>

BigTitle(i) == [j \in 1..MinTitleLength |-> BigChars[i]]

\* the page lists its articles oldest first
BigPage ==
    [i \in 1..(CapServer + 1) |-> [title |-> BigTitle(i), link |-> BigLinks[i], publishedAt |-> i]]

TextNairobi == <<"N","a","i","r","o","b","i"," ","t","o","d","a","y">>

\* items of the feeds and of NewsAPI in part_003: a Kenyan keyword in the
\* title, in the description only, in neither, and no title at all
Items003 ==
    {[title |-> TitleKcb, link |-> LinkA, content |-> <<>>, publishedAt |-> 0],
     [title |-> TitleShort, link |-> LinkB, content |-> TextNairobi, publishedAt |-> 0],
     [title |-> TitleShort, link |-> LinkA, content |-> Undefined, publishedAt |-> 0],
     [title |-> Undefined, link |-> LinkB, content |-> <<>>, publishedAt |-> 0]}

BigPage003 ==
    [i \in DOMAIN BigPage |->
       [title |-> BigPage[i].title, link |-> BigPage[i].link, content |-> <<>>,
        publishedAt |-> 0]]

\* a page with a keyword in capitals, a keyword in the description only and
\* no keyword
MixedPage003 ==
    <<[title |-> TitleKcb, link |-> LinkA, content |-> <<>>, publishedAt |-> 0],
      [title |-> TitleShort, link |-> LinkB, content |-> TextNairobi, publishedAt |-> 0],
      [title |-> TitleShort, link |-> LinkA, content |-> Undefined, publishedAt |-> 0]>>

Pages003 == SeqsUpTo(Items003, MaxPage) \cup {MixedPage003, BigPage003}

FeedSets003 == {{}, {1}, {1, 4}}

PipelineVariants == AppVariants \cup {"part_003"}

\* the states of the upstream world a single request is run against
RichWebs(v) ==
    CASE v = "server" ->
           {[sites |-> [i \in DOMAIN Sites |-> IF i \in up THEN Ok(pg) ELSE NotCalled],
             gnews |-> g, newsapi |-> NotCalled, rss |-> NotCalled] :
               up \in SiteSets, pg \in PipelinePages,
               g \in ApiOutcomes(PipelinePages \cup {BigPage})}
      [] v = "part_006" ->
           {[sites |-> NoSites, gnews |-> g, newsapi |-> n, rss |-> NotCalled] :
               g \in ApiOutcomes(PipelinePages \cup {BigPage}),
               n \in ApiOutcomes(PipelinePages)}
      [] v = "part_003" ->
           {[feeds |-> [i \in DOMAIN KENYAN_NEWS_SOURCES |->
                          IF i \in up THEN Ok(pg) ELSE NotCalled],
             kenya |-> k, global |-> g] :
               up \in FeedSets003, pg \in Pages003,
               k \in ApiOutcomes(Pages003), g \in ApiOutcomes(Pages003)}
      [] OTHER ->
           {[sites |-> NoSites, gnews |-> NotCalled, newsapi |-> n, rss |-> f] :
               n \in ApiOutcomes(PipelinePages), f \in PageOutcomes(PipelinePages)}

\* requests in one behaviour
MaxRequests == 2

Requests == 1..MaxRequests

\* seconds between two readings of the clock, and the number of readings
TickSeconds == 300

MaxTicks == 4

NoResponse == Response(0, NoBody)

\* the states of the upstream world the requests of SpecCache are run against
CacheWebs == {WebDown, WebUp}

\* the variants whose GET /api/export is modelled
ExportVariants == {"server_trends", "part_004"}

\* NewsAPI and the X API of part_004 without their keys, and serving
Web004Down == [newsapi |-> Failed("nokey"), x |-> Failed("nokey")]

Web004Up ==
    [newsapi |-> WebUp.newsapi,
     x |-> Ok(<<[title |-> TitleKcb, link |-> NoLink, publishedAt |-> 0]>>)]

ExportWebs(v) == IF v = "part_004" THEN {Web004Down, Web004Up} ELSE {WebDown, WebUp}

CacheParams == {"general"}

IdleRequest ==
    [pc |-> "idle", endpoint |-> "none", param |-> "", arrivedAt |-> 0, arrivedNo |-> 0,
     doneAt |-> 0, doneNo |-> 0, dispatched |-> FALSE, looked |-> FALSE, hit |-> FALSE,
     unhandled |-> FALSE, timedOut |-> FALSE, sends |-> 0, response |-> NoResponse]

\* a page of Cap006 articles
FullPage ==
    [n \in 1..Cap006 |-> [title |-> TitleRuto, link |-> LinkA, publishedAt |-> 0]]

\* the upstream of one part_006 trend callback: NewsAPI, the Google Trends
\* page and the Google Trends feed all failing, the feed answering without
\* items, all answering with items
Down006 == [api |-> NotCalled, html |-> NotCalled, rss |-> NotCalled]

Empty006 == [api |-> NotCalled, html |-> NotCalled, rss |-> Ok(<<>>)]

Up006 == [api |-> WebUp.newsapi, html |-> WebUp.rss, rss |-> WebUp.rss]

(***************************************************************************)
(* Aggregations of part_000 (42-141, 215-249), part_001 (157-190) and      *)
(* part_005 (42-165, 273-311), /api/trends variants.                       *)
(***************************************************************************)
\* part_000 scrapeGoogleTrends: the texts of the elements the selectors match
scrapeGoogleTrends000Try(o) ==
    IF o.kind # "ok" THEN Raise
    ELSE Ret(slice(uniq(SelectSeq(titlesOf(o.items), KeepScraped)), TrendCap))

scrapeGoogleTrends000(o) == OnCatchEmpty(scrapeGoogleTrends000Try(o))

RSSWord == <<"R","S","S">>

\* part_000 fetchRSSFeed on a feed without CDATA sections: the titles that
\* are neither the feed's name nor mention RSS
fetchRSSFeed000Try(feedName, o) ==
    IF o.kind # "ok" THEN Raise
    ELSE LET Keep(t) == /\ ~FalsyTitle(t) /\ t # feedName /\ ~includes(t, RSSWord)
                        /\ Len(t) > 3 /\ Len(t) < 80
         IN Ret(slice(uniq(SelectSeq(titlesOf(o.items), Keep)), TrendCap))

fetchRSSFeed000(feedName, o) == OnCatchEmpty(fetchRSSFeed000Try(feedName, o))

TrendCategories000 ==
    <<[key |-> "kenya", type |-> "google", name |-> <<"K","e","n","y","a">>],
      [key |-> "worldwide", type |-> "google", name |-> <<"W","o","r","l","d","w","i","d","e">>],
      [key |-> "googletrends", type |-> "google", name |-> <<"G","o","o","g","l","e"," ","T","r","e","n","d","s">>],
      [key |-> "news", type |-> "news", name |-> <<"N","e","w","s">>],
      [key |-> "technology", type |-> "news", name |-> <<"T","e","c","h","n","o","l","o","g","y">>],
      [key |-> "entertainment", type |-> "news", name |-> <<"E","n","t","e","r","t","a","i","n","m","e","n","t">>],
      [key |-> "sports", type |-> "news", name |-> <<"S","p","o","r","t","s">>],
      [key |-> "lifestyle", type |-> "rss", name |-> <<"L","i","f","e","s","t","y","l","e">>],
      [key |-> "business", type |-> "news", name |-> <<"B","u","s","i","n","e","s","s">>],
      [key |-> "health", type |-> "rss", name |-> <<"H","e","a","l","t","h">>],
      [key |-> "science", type |-> "rss", name |-> <<"S","c","i","e","n","c","e">>],
      [key |-> "fashion", type |-> "rss", name |-> <<"F","a","s","h","i","o","n">>]>>

\* the adapter call of one fetchPromises callback of part_000; getNewsTopics
\* is that of server.js
fetchTrends000Try(category, o) ==
    CASE category.type = "google" -> scrapeGoogleTrends000(o.html)
      [] category.type = "news" -> getNewsTopics(o.api)
      [] category.type = "rss" -> fetchRSSFeed000(category.name, o.rss)
      [] OTHER -> Ret(<<>>)

TrendCategories001 ==
    <<[key |-> "kenya", code |-> "", type |-> "mock"],
      [key |-> "worldwide", code |-> "", type |-> "mock"],
      [key |-> "xtrends", code |-> "", type |-> "x"],
      [key |-> "news", code |-> "general", type |-> "news"],
      [key |-> "technology", code |-> "technology", type |-> "news"],
      [key |-> "entertainment", code |-> "entertainment", type |-> "news"],
      [key |-> "sports", code |-> "sports", type |-> "news"],
      [key |-> "lifestyle", code |-> "health", type |-> "news"],
      [key |-> "business", code |-> "business", type |-> "news"],
      [key |-> "health", code |-> "health", type |-> "news"],
      [key |-> "science", code |-> "science", type |-> "news"],
      [key |-> "fashion", code |-> "entertainment", type |-> "news"]>>

\* results[category.key] of one fetchPromises callback of part_001:
\* trends.length ? trends : mockData[category.key] || []
fetchTrends001(category, o) ==
    LET trends == CASE category.type = "mock" -> mockOrEmpty(category.key)
                    [] category.type = "news" -> getNewsTopics001(category.code, o.api).value
                    [] category.type = "x" -> getXTrends(o.api).value
                    [] OTHER -> <<>>
    IN IF Len(trends) > 0 THEN trends ELSE mockOrEmpty(category.key)

\* part_005 scrapeTrends: the texts of the elements of the first selector
\* that matches any
scrapeTrends005Try(o) ==
    IF o.kind # "ok" THEN Raise
    ELSE LET Keep(t) == ~FalsyTitle(t) /\ Len(t) > 0 /\ Len(t) < 100
         IN Ret(slice(uniq(SelectSeq(titlesOf(o.items), Keep)), TrendCap))

scrapeTrends005(o) == OnCatchEmpty(scrapeTrends005Try(o))

\* index of the first c in s, 0 when there is none
indexOf(s, c) ==
    IF \E i \in DOMAIN s : s[i] = c
    THEN CHOOSE i \in DOMAIN s : s[i] = c /\ \A j \in 1..(i - 1) : s[j] # c
    ELSE 0

\* title.replace(/\s*-\s*.+$/, ''): from the blanks before the first dash
\* that is not the last character
dropSource(t) ==
    LET d == indexOf(t, "-")
    IN IF d = 0 \/ d = Len(t) THEN t ELSE trimEnd(SubSeq(t, 1, d - 1))

\* .replace(/^\w+:\s*/, ''): a leading word with its colon
dropLabel(t) ==
    LET c == indexOf(t, ":")
    IN IF c > 1 /\ \A j \in 1..(c - 1) : IsWordChar(t[j])
       THEN trimStart(SubSeq(t, c + 1, Len(t))) ELSE t

cleanTitle(t) == trim(dropLabel(dropSource(trim(t))))

\* part_005 getNewsTopics on the Google News feed of a country in rssUrls:
\* the cleaned titles of the first ten items
getNewsTopics005Try(o) ==
    IF o.kind # "ok" THEN Raise
    ELSE LET first == SelectSeq(slice(titlesOf(o.items), TrendCap),
                                LAMBDA t : ~FalsyTitle(t) /\ trim(t) # <<>>)
             cleaned == [i \in DOMAIN first |-> cleanTitle(first[i])]
         IN Ret(SelectSeq(cleaned, LAMBDA t : Len(t) > 5 /\ Len(t) < 60))

getNewsTopics005(o) == OnCatchEmpty(getNewsTopics005Try(o))

TrendCategories005 ==
    <<[key |-> "kenya", type |-> "google_trends"],
      [key |-> "worldwide", type |-> "google_news"],
      [key |-> "googletrends", type |-> "google_news"],
      [key |-> "news", type |-> "newsapi"],
      [key |-> "technology", type |-> "newsapi"],
      [key |-> "entertainment", type |-> "newsapi"],
      [key |-> "sports", type |-> "newsapi"],
      [key |-> "lifestyle", type |-> "rss"],
      [key |-> "business", type |-> "newsapi"],
      [key |-> "health", type |-> "rss"],
      [key |-> "science", type |-> "rss"],
      [key |-> "fashion", type |-> "rss"]>>

\* the adapter call of one loop iteration of part_005; getNewsAPITopics and
\* fetchRSSFeed are those of part_002
fetchTrends005Try(category, o) ==
    CASE category.type = "google_trends" -> scrapeTrends005(o)
      [] category.type = "google_news" -> getNewsTopics005(o)
      [] category.type = "newsapi" -> getNewsTopics(o)
      [] category.type = "rss" -> fetchRSSFeed(o)
      [] OTHER -> Ret(<<>>)

\* NewsAPI and X without keys
NoKeys001 == [api |-> Failed("nokey"), html |-> NotCalled, rss |-> NotCalled]

\* one aggregation: the eight scrapers and GNews of server.js, the twelve
\* trend callbacks of server.js, of part_000, of part_001 and of part_006,
\* the twelve loop iterations of part_002 and of part_005, the two adapters
\* of part_006's getNewsByCategory
FanKinds == {"news", "trends", "trends_000", "trends_001", "trends_002", "trends_005",
             "news_006", "trends_006"}

FanVariant(kind) ==
    CASE kind \in {"news", "trends"} -> "server"
      [] kind = "trends_000" -> "part_000"
      [] kind = "trends_001" -> "part_001"
      [] kind = "trends_002" -> "part_002"
      [] kind = "trends_005" -> "part_005"
      [] OTHER -> "part_006"

FanCategories(kind) ==
    CASE kind = "trends" -> TrendCategories
      [] kind = "trends_000" -> TrendCategories000
      [] kind = "trends_001" -> TrendCategories001
      [] kind = "trends_002" -> TrendCategories002
      [] kind = "trends_005" -> TrendCategories005
      [] kind = "trends_006" -> TrendCategories006
      [] OTHER -> <<>>

FanAdapters(kind) ==
    CASE kind = "news" -> 1..(Len(Sites) + 1)
      [] kind = "news_006" -> 1..2
      [] OTHER -> DOMAIN FanCategories(kind)

GNewsIndex == Len(Sites) + 1

VARIABLES
    variant,      \* the variant whose code runs
    articles,     \* SpecDedup: the input of removeDuplicates
    unique,       \* SpecDedup: its value
    uniqueAgain,  \* SpecDedup: the value of removeDuplicates on that value
    dedupPc,      \* SpecDedup: position
    adapter,      \* SpecAdapters: the Source Adapter called
    param,        \* SpecAdapters: its category, region, site or query
    net,          \* SpecAdapters: outcome of each upstream call
    returned,     \* SpecAdapters: what the adapter call did
    adapterPc,    \* SpecAdapters: position
    now,          \* requests: Date.now() in seconds
    cache,        \* requests: the Result Cache, key -> entry
    req,          \* requests: each request's progress and response
    web,          \* requests: outcome every upstream call would have now
    events,       \* requests: number of arrivals and completions so far
    fanKind,      \* SpecFanout: which aggregation runs
    fanCategory,  \* SpecFanout: category of getNewsByCategory
    fanPc,        \* SpecFanout: position of the collector
    fanState,     \* SpecFanout: each adapter call idle, pending or settled
    fanWeb,       \* SpecFanout: the upstreams shared by the callbacks of part_006
    fanNet,       \* SpecFanout: outcome of each adapter's upstream call
    fanOut,       \* SpecFanout: what each adapter call settled with
    fanCalls,     \* SpecFanout: invocations made for each entry so far
    fanStartedAfter, \* SpecFanout: the entries that had returned when the
                  \* latest invocation for each entry was started
    fanKeys,      \* SpecFanout: the keys of `results` in insertion order
    fanOvertakes, \* SpecFanout: returns so far that overtook a call in flight
    fanHttp,      \* SpecFanout: upstream HTTP requests made so far for each
                  \* entry of the trends round of part_006
    fanMerged,    \* SpecFanout: the merged output
    fanResponse   \* SpecFanout: the response of the request

dedupVars == <<articles, unique, uniqueAgain, dedupPc>>

adapterVars == <<adapter, param, net, returned, adapterPc>>

requestVars == <<now, cache, req, web, events>>

fanVars == <<fanKind, fanCategory, fanPc, fanWeb, fanState, fanNet, fanOut, fanCalls,
             fanStartedAfter, fanKeys, fanOvertakes, fanHttp, fanMerged, fanResponse>>

vars == <<variant, dedupVars, adapterVars, requestVars, fanVars>>

NotRun == [threw |-> FALSE, value |-> <<>>]

DedupOff ==
    articles = <<>> /\ unique = NotRun /\ uniqueAgain = NotRun /\ dedupPc = "off"

AdaptersOff ==
    /\ adapter = "none" /\ param = "none"
    /\ net = [api |-> NotCalled, html |-> NotCalled, rss |-> NotCalled]
    /\ returned = NotRun /\ adapterPc = "off"

RequestsOff ==
    /\ now = 0 /\ cache = <<>>
    /\ req = [r \in Requests |-> IdleRequest]
    /\ web = WebDown /\ events = 0

FanoutOff ==
    /\ fanKind = "none" /\ fanCategory = "none" /\ fanPc = "off"
    /\ fanWeb = Down006
    /\ fanState = <<>> /\ fanNet = <<>> /\ fanOut = <<>>
    /\ fanCalls = <<>> /\ fanStartedAfter = <<>> /\ fanKeys = <<>>
    /\ fanOvertakes = 0 /\ fanHttp = <<>>
    /\ fanMerged = NotRun /\ fanResponse = NoResponse

(***************************************************************************)
(* SpecDedup: removeDuplicates applied to every bounded input, and then    *)
(* to its own output.                                                      *)
(***************************************************************************)
InitDedup ==
    /\ variant \in Variants
    /\ articles \in SeqsUpTo(SampleArticles, MaxArticles)
    /\ unique = NotRun
    /\ uniqueAgain = NotRun
    /\ dedupPc = "start"
    /\ AdaptersOff /\ RequestsOff /\ FanoutOff

CallRemoveDuplicates ==
    /\ dedupPc = "start"
    /\ unique' = removeDuplicates(variant, articles)
    /\ dedupPc' = "once"
    /\ UNCHANGED <<variant, articles, uniqueAgain, adapterVars, requestVars, fanVars>>

CallRemoveDuplicatesAgain ==
    /\ dedupPc = "once"
    /\ ~unique.threw
    /\ uniqueAgain' = removeDuplicates(variant, unique.value)
    /\ dedupPc' = "twice"
    /\ UNCHANGED <<variant, articles, unique, adapterVars, requestVars, fanVars>>

NextDedup == CallRemoveDuplicates \/ CallRemoveDuplicatesAgain

SpecDedup == InitDedup /\ [][NextDedup]_vars

(***************************************************************************)
(* SpecAdapters: every Source Adapter called once on every bounded         *)
(* combination of upstream outcomes.                                       *)
(***************************************************************************)
ApiAdapters == {"server.getNewsTopics", "server.fetchGNewsKenyan",
                "server.scrapeGoogleTrendsAPI",
                "part_001.getNewsTopics", "part_001.getXTrends",
                "part_006.getGNewsKenyanContent", "part_006.getNewsAPIKenyanContent",
                "part_006.getNewsTopics"}

HtmlAdapters == {"server.scrapeSite", "part_006.scrapeGoogleTrends"}

RssAdapters == {"server.scrapeGoogleTrendsRSS", "server.fetchRSSFeed",
                "part_006.scrapeGoogleTrendsRSS"}

\* the adapters whose failure path calls the next adapter of the chain
UsesHtml(a) == a \in HtmlAdapters \cup {"part_006.getNewsTopics"}

UsesRss(a) == a \in RssAdapters \cup {"part_006.scrapeGoogleTrends", "part_006.getNewsTopics"}

AdapterNames == ApiAdapters \cup HtmlAdapters \cup RssAdapters

ParamsOf(a) ==
    CASE a = "server.scrapeSite" -> Range(Sites)
      [] a = "server.fetchGNewsKenyan" -> {"Kenya", QueryPolitics}
      [] a = "part_001.getNewsTopics" -> {"general", "technology"}
      [] a \in {"part_006.getGNewsKenyanContent", "part_006.getNewsAPIKenyanContent"} ->
            {"general", "politics"}
      [] a \in {"part_006.scrapeGoogleTrends", "part_006.scrapeGoogleTrendsRSS"} ->
            {"KE", "US", "GB"}
      [] OTHER -> {"none"}

Pages == SeqsUpTo(RawItems, MaxPage)

callAdapter(a, p, n) ==
    CASE a = "server.scrapeGoogleTrendsRSS" -> scrapeGoogleTrendsRSS(n.rss)
      [] a = "server.scrapeGoogleTrendsAPI" -> scrapeGoogleTrendsAPI(n.api)
      [] a = "server.fetchRSSFeed" -> fetchRSSFeed(n.rss)
      [] a = "server.getNewsTopics" -> getNewsTopics(n.api)
      [] a = "server.scrapeSite" -> scrapeSite(p, n.html, 0)
      [] a = "server.fetchGNewsKenyan" -> fetchGNewsKenyan(p, n.api)
      [] a = "part_001.getNewsTopics" -> getNewsTopics001(p, n.api)
      [] a = "part_001.getXTrends" -> getXTrends(n.api)
      [] a = "part_006.getGNewsKenyanContent" -> getGNewsKenyanContent(p, n.api)
      [] a = "part_006.getNewsAPIKenyanContent" -> getNewsAPIKenyanContent(p, n.api)
      [] a = "part_006.scrapeGoogleTrends" -> scrapeGoogleTrends006(p, n.html, n.rss)
      [] a = "part_006.scrapeGoogleTrendsRSS" -> scrapeGoogleTrendsRSS006(p, n.rss)
      [] a = "part_006.getNewsTopics" -> getNewsTopics006(n.api, n.html, n.rss)

InitAdapters ==
    /\ variant = "server"
    /\ DedupOff
    /\ adapter \in AdapterNames
    /\ param \in ParamsOf(adapter)
    /\ net \in [api : IF adapter \in ApiAdapters THEN ApiOutcomes(Pages) ELSE {NotCalled},
                html : IF UsesHtml(adapter) THEN PageOutcomes(Pages) ELSE {NotCalled},
                rss : IF UsesRss(adapter) THEN PageOutcomes(Pages) ELSE {NotCalled}]
    /\ returned = NotRun
    /\ adapterPc = "start"
    /\ RequestsOff /\ FanoutOff

CallAdapter ==
    /\ adapterPc = "start"
    /\ returned' = callAdapter(adapter, param, net)
    /\ adapterPc' = "returned"
    /\ UNCHANGED <<variant, dedupVars, adapter, param, net, requestVars, fanVars>>

NextAdapters == CallAdapter

SpecAdapters == InitAdapters /\ [][NextAdapters]_vars

(***************************************************************************)
(* Request handlers: GET /api/news/:category and GET /api/news of          *)
(* server.js (825-896) and part_006 (180-266), GET /api/trends of          *)
(* server.js (240-317).  A handler runs to its first await in Arrive and   *)
(* from the settling of its round to its response in Complete.             *)
(***************************************************************************)
Arrive(r, endpoint, p) ==
    LET category == paramToLowerCase(p)
        key == cacheKeyOf(variant, endpoint, category)
        arrived == [IdleRequest EXCEPT !.endpoint = endpoint, !.param = p,
                                       !.arrivedAt = now, !.arrivedNo = events + 1]
    IN /\ req[r].pc = "idle"
       /\ endpoint \in EndpointsOf(variant)
       /\ events' = events + 1
       /\ IF endpoint = "category" /\ ~acceptsCategory(variant, category)
          THEN /\ req' = [req EXCEPT ![r] =
                            [arrived EXCEPT !.pc = "done", !.doneAt = now,
                                            !.doneNo = events + 1, !.sends = 1,
                                            !.response = InvalidCategory(
                                                EnumeratedCategories(variant))]]
               /\ cache' = cache
          ELSE IF cacheHas(cache, key, now)
          THEN /\ req' = [req EXCEPT ![r] =
                            [arrived EXCEPT !.pc = "done", !.doneAt = now,
                                            !.doneNo = events + 1,
                                            !.looked = TRUE, !.hit = TRUE, !.sends = 1,
                                            !.response = Response(200, cache[key].value)]]
               /\ cache' = cache
          ELSE /\ req' = [req EXCEPT ![r] =
                            [arrived EXCEPT !.pc = "awaiting", !.looked = TRUE,
                                            !.dispatched = TRUE]]
               /\ cache' = cacheAfterGet(cache, key, now)
       /\ UNCHANGED <<variant, dedupVars, adapterVars, now, web, fanVars>>

\* part_004 99-101: the nine-second timer of GET /api/trends fires while the
\* handler awaits an adapter of its loop, and its callback answers 504
Timeout(r) ==
    /\ variant = "part_004"
    /\ req[r].pc = "awaiting"
    /\ ~req[r].timedOut
    /\ req' = [req EXCEPT ![r].timedOut = TRUE, ![r].sends = @ + 1,
                          ![r].response = Response(504, ErrorBody("Request timed out"))]
    /\ UNCHANGED <<variant, dedupVars, adapterVars, now, cache, web, events, fanVars>>

\* the calls of res.json and res.status(...).json a handler makes from the
\* settling of its round on: one; after the timer has answered, res.json
\* raises (headers already sent) and so does res.status(500).json in the catch
sendsAfterRound(late, response) ==
    IF late /\ response.status = 200 THEN 2 ELSE 1

\* after the timer has answered the handler's promise rejects
Complete(r) ==
    LET category == paramToLowerCase(req[r].param)
        key == cacheKeyOf(variant, req[r].endpoint, category)
        response == freshResponse(variant, req[r].endpoint, category, web, now)
        late == req[r].timedOut
        sent == IF late THEN req[r].response ELSE response
    IN /\ req[r].pc = "awaiting"
       /\ events' = events + 1
       /\ cache' = IF response.status = 200
                   THEN cacheAfterSet(cache, key, response.body, now)
                   ELSE cache
       /\ req' = [req EXCEPT ![r].pc = "done", ![r].doneAt = now,
                             ![r].doneNo = events + 1, ![r].response = sent,
                             ![r].sends = @ + sendsAfterRound(late, response),
                             ![r].unhandled = late]
       /\ UNCHANGED <<variant, dedupVars, adapterVars, now, web, fanVars>>

\* GET /api/export: no await between cache.get and the response
Export(r) ==
    LET key == cacheKeyOf(variant, "trends", "")
        hit == cacheHas(cache, key, now)
        arrived == [IdleRequest EXCEPT !.endpoint = "export", !.arrivedAt = now,
                                       !.arrivedNo = events + 1]
    IN /\ req[r].pc = "idle"
       /\ events' = events + 1
       /\ req' = [req EXCEPT ![r] =
                    [arrived EXCEPT !.pc = "done", !.doneAt = now, !.doneNo = events + 1,
                                    !.looked = TRUE, !.hit = hit, !.sends = 1,
                                    !.response = exportResponse(variant, hit,
                                                                cache[key].value)]]
       /\ cache' = cacheAfterGet(cache, key, now)
       /\ UNCHANGED <<variant, dedupVars, adapterVars, now, web, fanVars>>

(***************************************************************************)
(* SpecPipeline: one request run against every bounded state of the        *)
(* upstream world.                                                         *)
(***************************************************************************)
InitPipeline ==
    /\ variant \in PipelineVariants
    /\ DedupOff /\ AdaptersOff /\ FanoutOff
    /\ now = 0
    /\ cache = [k \in KeysOf(variant) |-> Absent]
    /\ req = [r \in Requests |-> IdleRequest]
    /\ web \in RichWebs(variant)
    /\ events = 0

ArriveOnce ==
    \E endpoint \in {"trends", "news", "category"} :
        \E p \in IF endpoint = "category" THEN SampleParams ELSE {""} :
            Arrive(1, endpoint, p)

CompleteOnce == Complete(1)

NextPipeline == ArriveOnce \/ CompleteOnce

SpecPipeline == InitPipeline /\ [][NextPipeline]_vars

(***************************************************************************)
(* SpecCache: several requests, the clock and the upstream world moving    *)
(* between them.                                                           *)
(***************************************************************************)

InitCache ==
    /\ variant \in AppVariants
    /\ DedupOff /\ AdaptersOff /\ FanoutOff
    /\ now = 0
    /\ cache = [k \in KeysOf(variant) |-> Absent]
    /\ req = [r \in Requests |-> IdleRequest]
    /\ web \in CacheWebs
    /\ events = 0

\* requests are numbered in the order of their arrival
ArriveSome ==
    \E r \in Requests, endpoint \in {"trends", "news", "category"} :
        \E p \in IF endpoint = "category" THEN CacheParams ELSE {""} :
            /\ \A q \in Requests : q < r => req[q].pc # "idle"
            /\ Arrive(r, endpoint, p)

CompleteSome == \E r \in Requests : Complete(r)

Tick ==
    /\ now + TickSeconds <= MaxTicks * TickSeconds
    /\ now' = now + TickSeconds
    /\ UNCHANGED <<variant, dedupVars, adapterVars, cache, req, web, events, fanVars>>

\* the upstream world changes between rounds
WebChange ==
    /\ web' \in CacheWebs \ {web}
    /\ UNCHANGED <<variant, dedupVars, adapterVars, now, cache, req, events, fanVars>>

\* the periodic check of the cache deletes the entries whose expiry has passed
CheckData ==
    /\ \E k \in DOMAIN cache : cache[k].present /\ cache[k].expires < now
    /\ cache' = [k \in DOMAIN cache |->
                   IF cache[k].present /\ cache[k].expires < now THEN Absent ELSE cache[k]]
    /\ UNCHANGED <<variant, dedupVars, adapterVars, now, req, web, events, fanVars>>

NextCache == ArriveSome \/ CompleteSome \/ Tick \/ WebChange \/ CheckData

SpecCache == InitCache /\ [][NextCache]_vars

(***************************************************************************)
(* SpecExport: GET /api/trends and GET /api/export of server.js and of      *)
(* part_004, the clock moving between the requests.                        *)
(***************************************************************************)
InitExport ==
    /\ variant \in ExportVariants
    /\ DedupOff /\ AdaptersOff /\ FanoutOff
    /\ now = 0
    /\ cache = [k \in KeysOf(variant) |-> Absent]
    /\ req = [r \in Requests |-> IdleRequest]
    /\ web \in ExportWebs(variant)
    /\ events = 0

ArriveTrends ==
    \E r \in Requests :
        /\ \A q \in Requests : q < r => req[q].pc # "idle"
        /\ Arrive(r, "trends", "")

ExportSome ==
    \E r \in Requests :
        /\ \A q \in Requests : q < r => req[q].pc # "idle"
        /\ Export(r)

TimeoutSome == \E r \in Requests : Timeout(r)

NextExport ==
    ArriveTrends \/ TimeoutSome \/ CompleteSome \/ ExportSome \/ Tick \/ CheckData

SpecExport == InitExport /\ [][NextExport]_vars

(***************************************************************************)
(* SpecFanout: one aggregation, its adapter calls settling one at a time:  *)
(* getNewsByCategory (768-822) and the fetchPromises of GET /api/trends    *)
(* (266-288) of server.js, the for loop of GET /api/trends of part_002     *)
(* (301-324), getNewsByCategory (139-156) and the fetchPromises of GET     *)
(* /api/trends (543-561) of part_006.                                      *)
(***************************************************************************)
\* how many times in one aggregation a call may return while a call started
\* before it is still in flight
MaxOvertakes == 1

\* what the upstream of adapter i serves when its call succeeds
FanPage(kind, i) ==
    CASE kind = "news" -> IF i = GNewsIndex THEN WebUp.gnews ELSE Ok(SitePage(i))
      [] kind = "trends" ->
            IF TrendCategories[i].type = "news" THEN WebUp.newsapi ELSE WebUp.rss
      [] kind = "trends_002" ->
            IF TrendCategories002[i].type = "newsapi" THEN WebUp.newsapi ELSE WebUp.rss
      [] kind = "trends_005" ->
            IF TrendCategories005[i].type = "newsapi" THEN WebUp.newsapi ELSE WebUp.rss
      [] kind = "news_006" -> IF i = 1 THEN WebUp.gnews ELSE WebUp.newsapi
      [] OTHER -> Up006

\* the callbacks of one round that share their upstreams
SharesWeb(kind) == kind \in {"trends_000", "trends_001", "trends_006"}

\* the states of the shared upstreams tried
FanWebs(kind) ==
    CASE kind = "trends_000" -> {Down006, Up006}
      [] kind = "trends_001" -> {Down006, NoKeys001, Up006}
      [] kind = "trends_006" -> {Down006, Empty006, Up006}
      [] OTHER -> {Down006}

\* the outcomes of the upstream calls of one invocation for entry i; the
\* callbacks of part_000, part_001 and part_006 call the same upstreams,
\* whose state is taken to last for the aggregation
FanOutcomes(kind, i) ==
    CASE SharesWeb(kind) -> {fanWeb}
      [] kind = "news_006" /\ i = 1 -> {NotCalled, FanPage(kind, i), Ok(FullPage)}
      [] OTHER -> {NotCalled, FanPage(kind, i)}

\* the value the promise of adapter i settles with
fanCall(kind, category, i, o) ==
    CASE kind = "news" ->
            IF i = GNewsIndex THEN fetchGNewsKenyan(CATEGORY_QUERIES(category), o)
            ELSE scrapeSite(Sites[i], o, 0)
      [] kind = "trends" ->
            Ret(fetchTrends(TrendCategories[i], [newsapi |-> o, rss |-> o]))
      [] kind = "trends_000" -> fetchTrends000Try(TrendCategories000[i], o)
      [] kind = "trends_001" -> Ret(fetchTrends001(TrendCategories001[i], o))
      [] kind = "trends_002" -> fetchTrends002Try(TrendCategories002[i], o)
      [] kind = "trends_005" -> fetchTrends005Try(TrendCategories005[i], o)
      [] kind = "news_006" ->
            IF i = 1 THEN getGNewsKenyanContent(category, o)
            ELSE getNewsAPIKenyanContent(category, o)
      [] OTHER -> fetchTrends006Try(TrendCategories006[i], o)

\* a scrapeGoogleTrends that requests the page a second time before it
\* turns to the feed
scrapeHttpRetry006(html, rss) ==
    IF html.kind # "ok" \/ Len(uniq(SelectSeq(titlesOf(html.items), KeepScraped))) = 0
    THEN 3 ELSE 1

\* the axios.get calls of one call of scrapeGoogleTrends of part_006: the
\* page, and the feed when the page fails or yields no trend
scrapeHttp006(html, rss) ==
    IF html.kind # "ok" \/ Len(uniq(SelectSeq(titlesOf(html.items), KeepScraped))) = 0
    THEN 2 ELSE 1

\* the axios.get calls of one call of getNewsTopics of part_006: NewsAPI when
\* there is a key, then those of scrapeGoogleTrends('US') unless NewsAPI
\* gave a headline
newsHttp006(api, html, rss) ==
    IF api.kind = "nokey" THEN scrapeHttp006(html, rss)
    ELSE IF api.kind = "ok" /\ Len(api.items) > 0 /\ Len(headlines(api.items)) > 0 THEN 1
    ELSE 1 + scrapeHttp006(html, rss)

\* the HTTP requests of the first adapter call for entry i
httpRequests(kind, i, o) ==
    IF kind # "trends_006" THEN 0
    ELSE IF TrendCategories006[i].type = "google" THEN scrapeHttp006(o.html, o.rss)
    ELSE newsHttp006(o.api, o.html, o.rss)

\* a callback that raises before its first await, or has no await, is
\* settled when map returns
SettlesAtLaunch(kind, i) ==
    \/ kind = "trends" /\ TrendCategories[i].type = "pytrends"
    \/ kind = "trends_001" /\ TrendCategories001[i].type = "mock"

\* loop of one call at a time
StartsFirstOnly(kind, i) == i = 1

\* categories.map and sources.map call every callback before the await; the
\* for loops of part_002 and part_005 and getNewsByCategory of part_006 call
\* the first
StartsAtLaunch(kind, i) ==
    kind \in {"news", "trends", "trends_000", "trends_001", "trends_006"} \/ i = 1

\* the callbacks that assign results[category.key]
WritesKey(kind) ==
    kind \in {"trends", "trends_000", "trends_001", "trends_002", "trends_005", "trends_006"}

\* part_006 543-561: results[key] = trends.length ? trends : await
\* scrapeGoogleTrends('US'), and the same call in the catch
CallsAgain(kind, out) == kind = "trends_006" /\ (out.threw \/ Len(out.value) = 0)

\* part_006 147: the second adapter is called when the first returned fewer
\* than ten articles (0: no entry)
StartsNext(kind, i, out) ==
    IF kind = "news_006" /\ i = 1 /\ ~out.threw /\ Len(out.value) < Cap006 THEN 2 ELSE 0

InFlight(i) == fanState[i] \in {"pending", "again"}

Overtaken(i) == {j \in DOMAIN fanState : j < i /\ InFlight(j)}

\* counted where the order of the returns is kept, in the keys of results
Overtaking(i) == WritesKey(fanKind) /\ Overtaken(i) # {}

MayReturn(i) == ~Overtaking(i) \/ fanOvertakes < MaxOvertakes

OvertakesAfter(i) == IF Overtaking(i) THEN fanOvertakes + 1 ELSE fanOvertakes

InitFanout ==
    /\ DedupOff /\ AdaptersOff
    /\ now = 0 /\ req = [r \in Requests |-> IdleRequest] /\ web = WebDown /\ events = 0
    /\ fanKind \in FanKinds
    /\ cache = [k \in KeysOf("server_trends") |-> Absent]
    /\ variant = FanVariant(fanKind)
    /\ fanCategory \in CASE fanKind = "news" -> {"general", "news"}
                         [] fanKind = "news_006" -> {"general", "constructor"}
                         [] OTHER -> {"none"}
    /\ fanPc = "start"
    /\ fanWeb \in FanWebs(fanKind)
    /\ fanState = [i \in FanAdapters(fanKind) |-> "idle"]
    /\ fanNet = [i \in FanAdapters(fanKind) |-> NotCalled]
    /\ fanOut = [i \in FanAdapters(fanKind) |-> NotRun]
    /\ fanCalls = [i \in FanAdapters(fanKind) |-> 0]
    /\ fanStartedAfter = [i \in FanAdapters(fanKind) |-> {}]
    /\ fanKeys = <<>>
    /\ fanOvertakes = 0
    /\ fanHttp = [i \in FanAdapters(fanKind) |-> 0]
    /\ fanMerged = NotRun
    /\ fanResponse = NoResponse

\* the synchronous part of the aggregation, up to its first await
Launch ==
    /\ fanPc = "start"
    /\ fanPc' = "waiting"
    /\ fanState' = [i \in FanAdapters(fanKind) |->
                      IF SettlesAtLaunch(fanKind, i) THEN "settled"
                      ELSE IF StartsAtLaunch(fanKind, i) THEN "pending" ELSE "idle"]
    /\ fanOut' = [i \in FanAdapters(fanKind) |->
                    IF SettlesAtLaunch(fanKind, i)
                    THEN fanCall(fanKind, fanCategory, i, NotCalled)
                    ELSE NotRun]
    /\ fanCalls' = [i \in FanAdapters(fanKind) |->
                      IF StartsAtLaunch(fanKind, i) /\ ~SettlesAtLaunch(fanKind, i)
                      THEN 1 ELSE 0]
    /\ fanKeys' = SelectSeq([i \in FanAdapters(fanKind) |-> i],
                            LAMBDA i : SettlesAtLaunch(fanKind, i))
    /\ UNCHANGED <<variant, dedupVars, adapterVars, requestVars,
                   fanKind, fanCategory, fanWeb, fanNet, fanStartedAfter, fanOvertakes,
                   fanHttp, fanMerged, fanResponse>>

\* the upstream call of adapter i succeeds, or fails or times out, and the
\* code awaiting the adapter runs up to its next await
Settle ==
    \E i \in FanAdapters(fanKind) : \E o \in FanOutcomes(fanKind, i) :
        LET out == fanCall(fanKind, fanCategory, i, o)
            again == CallsAgain(fanKind, out)
            next == StartsNext(fanKind, i, out)
            done == {j \in DOMAIN fanState : fanState[j] = "settled"} \cup {i}
        IN /\ fanPc = "waiting"
           /\ fanState[i] = "pending"
           /\ MayReturn(i)
           /\ fanState' = [j \in DOMAIN fanState |->
                             IF j = i THEN IF again THEN "again" ELSE "settled"
                             ELSE IF j = next THEN "pending" ELSE fanState[j]]
           /\ fanCalls' = [j \in DOMAIN fanCalls |->
                             IF (j = i /\ again) \/ j = next
                             THEN fanCalls[j] + 1 ELSE fanCalls[j]]
           /\ fanStartedAfter' = [j \in DOMAIN fanStartedAfter |->
                                    IF (j = i /\ again) \/ j = next
                                    THEN done ELSE fanStartedAfter[j]]
           /\ fanKeys' = IF WritesKey(fanKind) /\ ~again
                         THEN Append(fanKeys, i) ELSE fanKeys
           /\ fanOvertakes' = OvertakesAfter(i)
           /\ fanHttp' = [fanHttp EXCEPT ![i] = @ + httpRequests(fanKind, i, o)]
           /\ fanNet' = [fanNet EXCEPT ![i] = o]
           /\ fanOut' = [fanOut EXCEPT ![i] = out]
           /\ UNCHANGED <<variant, dedupVars, adapterVars, requestVars,
                          fanKind, fanCategory, fanPc, fanWeb, fanMerged, fanResponse>>

\* part_006 557, 560: the second scrapeGoogleTrends('US') of a callback returns
SettleAgain ==
    \E i \in FanAdapters(fanKind) : \E o \in FanOutcomes(fanKind, i) :
        /\ fanPc = "waiting"
        /\ fanState[i] = "again"
        /\ MayReturn(i)
        /\ fanState' = [fanState EXCEPT ![i] = "settled"]
        /\ fanNet' = [fanNet EXCEPT ![i] = o]
        /\ fanOut' = [fanOut EXCEPT ![i] = scrapeGoogleTrends006("US", o.html, o.rss)]
        /\ fanKeys' = Append(fanKeys, i)
        /\ fanOvertakes' = OvertakesAfter(i)
        /\ fanHttp' = [fanHttp EXCEPT ![i] = @ + scrapeHttp006(o.html, o.rss)]
        /\ UNCHANGED <<variant, dedupVars, adapterVars, requestVars, fanKind,
                       fanCategory, fanPc, fanWeb, fanCalls, fanStartedAfter, fanMerged,
                       fanResponse>>

\* part_002 318, part_005 291: the two-second timer of an iteration fires
\* and the loop goes on with the next category
NextCategory ==
    /\ fanPc = "waiting"
    /\ fanKind \in {"trends_002", "trends_005"}
    /\ \A j \in DOMAIN fanState : ~InFlight(j)
    /\ \E i \in DOMAIN fanState :
          /\ fanState[i] = "idle"
          /\ \A j \in DOMAIN fanState : j < i => fanState[j] = "settled"
          /\ fanState' = [fanState EXCEPT ![i] = "pending"]
          /\ fanCalls' = [fanCalls EXCEPT ![i] = @ + 1]
          /\ fanStartedAfter' = [fanStartedAfter EXCEPT
                                   ![i] = {j \in DOMAIN fanState : fanState[j] = "settled"}]
    /\ UNCHANGED <<variant, dedupVars, adapterVars, requestVars, fanKind, fanCategory,
                   fanPc, fanWeb, fanNet, fanOut, fanKeys, fanOvertakes, fanHttp,
                   fanMerged, fanResponse>>

\* a collector that goes on as soon as no call is in flight
ResumesWhenQuiet == \A i \in FanAdapters(fanKind) : ~InFlight(i)

\* Promise.all resumes when all have fulfilled or one has rejected,
\* Promise.allSettled when all have settled; the loops of part_002 and
\* part_005 end after their last category, getNewsByCategory of part_006
\* goes on when the adapters it called have returned
Resumes ==
    \/ /\ \A i \in FanAdapters(fanKind) : ~InFlight(i)
       /\ fanKind # "news_006" => \A i \in FanAdapters(fanKind) : fanState[i] = "settled"
    \/ fanKind = "news" /\ \E i \in FanAdapters(fanKind) : fanOut[i].threw

\* the value of a promise the collector has not seen settle is not used
SeenOut(i) == IF fanState[i] = "settled" THEN fanOut[i] ELSE NotRun

Collect ==
    LET scraped == collectSites([i \in DOMAIN Sites |-> SeenOut(i)])
        combined == combineArticles(scraped, SeenOut(GNewsIndex))
        news == selectNewsByCategory(fanCategory, combined)
        kenyanArticles == SeenOut(1).value \o SeenOut(2).value
        uniqueKenyan == removeDuplicatesPart006(kenyanArticles)
    IN /\ fanPc = "waiting"
       /\ Resumes
       /\ fanPc' = "done"
       /\ CASE fanKind = "news" ->
                 /\ fanMerged' = combined
                 /\ fanResponse' =
                      IF news.threw THEN ServerError
                      ELSE Response(200, Body(TRUE, "category", fanCategory,
                                              news.value, <<>>, 0))
            [] fanKind = "news_006" ->
                 /\ fanMerged' = Ret(kenyanArticles)
                 /\ fanResponse' =
                      IF uniqueKenyan.threw THEN ServerError006
                      ELSE Response(200, Body(TRUE, "category", fanCategory,
                                              slice(uniqueKenyan.value, Cap006), <<>>, 0))
            [] OTHER ->
                 /\ fanResponse' =
                      collectTrends(FanCategories(fanKind), fanKeys,
                                    [i \in FanAdapters(fanKind) |-> fanOut[i].value], 0)
                 /\ fanMerged' = Ret(fanResponse'.body.lists)
       /\ cache' = IF WritesKey(fanKind)
                   THEN cacheAfterSet(cache, cacheKeyOf(variant, "trends", ""),
                                      fanResponse'.body, now)
                   ELSE cache
       /\ UNCHANGED <<variant, dedupVars, adapterVars, now, req, web, events, fanKind,
                      fanCategory, fanWeb, fanState, fanNet, fanOut, fanCalls,
                      fanStartedAfter, fanKeys, fanOvertakes, fanHttp>>

NextFanout == Launch \/ Settle \/ SettleAgain \/ NextCategory \/ Collect

SpecFanout == InitFanout /\ [][NextFanout]_vars

(***************************************************************************)
(* SpecTrends006: one round of GET /api/trends of part_006 (517-612).  The *)
(* handler's own code runs when the event loop reaches it, and every       *)
(* upstream call returns or fails: axios is given a timeout on every call  *)
(* (part_006 347, 401, 468).                                               *)
(***************************************************************************)
InitTrends006 == InitFanout /\ fanKind = "trends_006"

NextTrends006 == Launch \/ Settle \/ SettleAgain \/ Collect

SpecTrends006 ==
    /\ InitTrends006 /\ [][NextTrends006]_vars
    /\ WF_vars(Launch) /\ WF_vars(Settle) /\ WF_vars(SettleAgain) /\ WF_vars(Collect)

(***************************************************************************)
(* Properties of the request handlers (SpecPipeline, SpecCache).           *)
(***************************************************************************)
IsAggregate(endpoint) == endpoint \in {"trends", "news"}

IsNews(endpoint) == endpoint \in {"news", "category"}

Answered(r) == req[r].pc = "done"

\* C1 as stated: of two requests to one aggregate endpoint that arrive within
\* 600 seconds of each other, the later one dispatches no adapter round,
\* whether or not the earlier one has been answered yet.
C1_OneRoundPerWindow ==
    \A r1 \in Requests, r2 \in Requests :
        ( /\ req[r1].pc # "idle" /\ req[r2].pc # "idle"
          /\ IsAggregate(req[r1].endpoint) /\ req[r2].endpoint = req[r1].endpoint
          /\ req[r1].arrivedNo < req[r2].arrivedNo
          /\ req[r2].arrivedAt - req[r1].arrivedAt <= TTL )
        => ~req[r2].dispatched

\* r arrived after r0 had stored its response, no later than TTL after the store
ArrivedAfterStore(r0, r) ==
    /\ r0 # r
    /\ Answered(r0) /\ req[r0].dispatched /\ req[r0].response.status = 200
    /\ req[r].pc # "idle"
    /\ IsAggregate(req[r].endpoint) /\ req[r].endpoint = req[r0].endpoint
    /\ req[r0].doneNo < req[r].arrivedNo
    /\ req[r].arrivedAt <= req[r0].doneAt + TTL

\* C1 amended: a request to an aggregate endpoint that arrives after an
\* earlier request has stored its response, and no later than 600 seconds
\* after that store, is answered at once from the cache with a stored
\* response (same lastUpdated) and dispatches no adapter round.
C1_StoredResponseServed ==
    \A r0 \in Requests, r \in Requests :
        ArrivedAfterStore(r0, r)
        => /\ Answered(r) /\ req[r].hit /\ ~req[r].dispatched
           /\ \E r1 \in Requests \ {r} :
                 /\ Answered(r1) /\ req[r1].dispatched
                 /\ req[r1].doneNo < req[r].arrivedNo
                 /\ req[r].response = req[r1].response

\* a second request arrives exactly 600 seconds after a non-empty store
C1_Witness ==
    \E r0 \in Requests, r \in Requests :
        /\ ArrivedAfterStore(r0, r)
        /\ req[r].arrivedAt = req[r0].doneAt + TTL
        /\ req[r].hit
        /\ req[r].response.body.lastUpdated = req[r0].doneAt
        /\ \E i \in DOMAIN req[r].response.body.lists :
              req[r].response.body.lists[i].articles # <<>>

UnknownCategory(r) ==
    /\ req[r].pc # "idle" /\ req[r].endpoint = "category"
    /\ paramToLowerCase(req[r].param) \notin Range(EnumeratedCategories(variant))

\* C2: a request for a category that is not an enumerated name is answered
\* 400 with the valid categories, dispatches no adapter round and neither
\* reads nor writes the cache.
C2_UnknownCategoryRejected ==
    \A r \in Requests :
        UnknownCategory(r)
        => /\ Answered(r) /\ req[r].response.status = 400
           /\ req[r].response.body.validCategories = EnumeratedCategories(variant)
           /\ ~req[r].dispatched /\ ~req[r].looked
           /\ \A k \in DOMAIN cache : ~cache[k].present

\* C9: every Article of a news response has a title and a link, and no
\* request for a valid category fails.
C9_TitleAndLinkPresent ==
    \A r \in Requests :
        (Answered(r) /\ IsNews(req[r].endpoint) /\ ~UnknownCategory(r))
        => /\ req[r].response.status = 200
           /\ \A i \in DOMAIN ResponseArticles(req[r].response.body) :
                 LET article == ResponseArticles(req[r].response.body)[i]
                 IN ~FalsyTitle(article.title) /\ ~FalsyLink(article.link)

\* C10: no two Articles of one news response have the same link.
C10_LinksUnique ==
    \A r \in Requests :
        (Answered(r) /\ IsNews(req[r].endpoint) /\ req[r].response.status = 200)
        => LET found == ResponseArticles(req[r].response.body)
           IN \A i \in DOMAIN found, j \in DOMAIN found :
                 found[i].link = found[j].link => i = j

\* whether the round of a request raises above the adapters: in a callback
\* of /api/trends, in getNewsByCategory or in the global deduplication
RaisesAbove(v, endpoint, category) ==
    CASE endpoint = "trends" /\ v = "part_003" -> FALSE
      [] endpoint = "trends" /\ v # "part_003" ->
            \E i \in DOMAIN TrendCategories : fetchTrendsTry(TrendCategories[i], web).threw
      [] endpoint = "category" /\ v = "server" ->
            getNewsByCategoryServer(category, web, now).threw
      [] endpoint = "category" /\ v # "server" -> getNewsByCategory006(category, web).threw
      [] endpoint = "news" /\ v = "server" ->
            LET results == promiseAll([i \in DOMAIN CategoryKeysServer |->
                               getNewsByCategoryServer(CategoryKeysServer[i], web, now)])
            IN results.threw \/ removeDuplicatesServer(flat(results.value)).threw
      [] OTHER ->
            \E i \in DOMAIN CategoryKeys006 :
               getNewsByCategory006(CategoryKeys006[i], web).threw

\* C16: a request whose handling raised a fault above the adapters is
\* answered 500 with success false, and no handler ends in an unhandled
\* rejection.
C16_FaultsAnswered500 ==
    \A r \in Requests :
        Answered(r)
        => /\ ~req[r].unhandled
           /\ (req[r].dispatched
                /\ RaisesAbove(variant, req[r].endpoint, paramToLowerCase(req[r].param)))
              => (req[r].response.status = 500 /\ ~req[r].response.body.success)

(***************************************************************************)
(* Lifecycle of a cache key (SpecCache).                                   *)
(***************************************************************************)
KeyOfRequest(r) == cacheKeyOf(variant, req'[r].endpoint, paramToLowerCase(req'[r].param))

Completes(r) == req[r].pc = "awaiting" /\ req'[r].pc = "done"

Looks(r) == req[r].pc = "idle" /\ req'[r].pc # "idle" /\ req'[r].looked

\* an entry changes by a set of a completing request, which stores its 200
\* response to expire TTL seconds later, or by the removal of an entry set
\* more than TTL seconds ago (expires is the time of the set plus TTL)
KeyStep(k) ==
    cache'[k] # cache[k]
    => \/ /\ cache'[k].present /\ cache'[k].expires = now + TTL
          /\ \E r \in Requests :
                /\ Completes(r) /\ KeyOfRequest(r) = k
                /\ req'[r].response.status = 200
                /\ cache'[k].value = req'[r].response.body
       \/ /\ ~cache'[k].present /\ cache[k].present
          /\ now > cache[k].expires

\* a get within TTL seconds of the set returns the stored value; a get after
\* that signals absence, the request runs a round and its 200 response is
\* stored under the key
RequestStep(r) ==
    /\ Looks(r) =>
          IF cache[KeyOfRequest(r)].present /\ now <= cache[KeyOfRequest(r)].expires
          THEN /\ req'[r].hit /\ ~req'[r].dispatched
               /\ req'[r].response = Response(200, cache[KeyOfRequest(r)].value)
          ELSE /\ ~req'[r].hit /\ req'[r].dispatched /\ req'[r].pc = "awaiting"
               /\ ~cache'[KeyOfRequest(r)].present
    /\ (Completes(r) /\ req'[r].response.status = 200) =>
          cache'[KeyOfRequest(r)] = [present |-> TRUE, value |-> req'[r].response.body,
                                     expires |-> now + TTL]

\* C15: a key goes from absent to populated and from populated to populated
\* only by a set, and from populated to absent only when more than TTL
\* seconds have passed since its last set; a get after expiry signals
\* absence, and the request that made it runs a fresh round and repopulates
\* the key.
C15_CacheLifecycle ==
    [][(\A k \in DOMAIN cache : KeyStep(k)) /\ (\A r \in Requests : RequestStep(r))]_vars

\* a request that arrived after the expiry of an earlier response has run a
\* round, and its response is the entry of the key
C15_Witness ==
    \E q \in Requests, r \in Requests :
        /\ req[q].pc = "done" /\ req[r].pc = "done"
        /\ req[q].endpoint = req[r].endpoint /\ req[q].param = req[r].param
        /\ req[q].dispatched /\ req[q].response.status = 200
        /\ req[r].arrivedAt > req[q].doneAt + TTL
        /\ req[r].dispatched /\ req[r].response.status = 200
        /\ \E k \in DOMAIN cache :
              cache[k] = [present |-> TRUE, value |-> req[r].response.body,
                          expires |-> req[r].doneAt + TTL]

(***************************************************************************)
(* Properties of GET /api/export (SpecExport).                             *)
(***************************************************************************)
Exported(r) == req[r].pc = "done" /\ req[r].endpoint = "export"

\* C13: an export that finds no aggregate in the cache is answered 404 with
\* success false and the message 'No trends data available...', and
\* dispatches no upstream request.
C13_ExportWithoutCache ==
    \A r \in Requests :
        (Exported(r) /\ ~req[r].hit)
        => /\ req[r].response.status = 404
           /\ ~req[r].response.body.success
           /\ req[r].response.body.error =
                 "No trends data available. Please fetch trends first."
           /\ ~req[r].dispatched

TotalItems(body) == Len(flat([n \in DOMAIN body.lists |-> body.lists[n].articles]))

\* C14: an export that finds the aggregate of an earlier /api/trends request
\* in the cache is answered 200 with CSV whose header is
\* 'Category,Keyword,Timestamp' and which has one row per item of that
\* aggregate, also when every list of the aggregate is empty.
C14_ExportAfterAggregate ==
    \A r \in Requests :
        (Exported(r) /\ req[r].hit)
        => /\ req[r].response.status = 200
           /\ req[r].response.body.kind = "csv"
           /\ req[r].response.body.header = "Category,Keyword,Timestamp"
           /\ \E q \in Requests :
                 /\ req[q].endpoint = "trends" /\ req[q].pc = "done"
                 /\ req[q].doneNo < req[r].arrivedNo
                 /\ Len(req[r].response.body.items) = TotalItems(req[q].response.body)

(***************************************************************************)
(* Properties of the Fan-out Collector (SpecFanout).                       *)
(***************************************************************************)
FanSucceeded(i) == fanNet[i].kind = "ok"

\* what adapter i returns when its upstream call succeeds
SuccessOutput(i) == fanCall(fanKind, fanCategory, i, FanPage(fanKind, i)).value

Contribution(i) == IF FanSucceeded(i) THEN SuccessOutput(i) ELSE <<>>

ResponseKeys(response) ==
    [n \in DOMAIN response.body.lists |-> response.body.lists[n].category]

\* C12: whatever the order in which the calls return, the Articles of the
\* merged list are in adapter list order and the category keys of the
\* /api/trends response are in category list order.
C12_MergeOrderStatic ==
    (fanPc = "done" /\ fanResponse.status = 200)
    => IF WritesKey(fanKind)
       THEN ResponseKeys(fanResponse) =
               [i \in DOMAIN FanCategories(fanKind) |-> FanCategories(fanKind)[i].key]
       ELSE fanMerged.value = flat([i \in FanAdapters(fanKind) |-> SeenOut(i).value])

(***************************************************************************)
(* Properties of the Deduplicator (SpecDedup).                             *)
(***************************************************************************)
Retained(result, article) == \E k \in DOMAIN result.value : result.value[k] = article

HasTitleAndLink(article) == ~FalsyTitle(article.title) /\ ~FalsyLink(article.link)

\* two Articles with titles, identical normalized titles and different links
SameStoryPair(a, b) ==
    /\ HasTitleAndLink(a) /\ HasTitleAndLink(b)
    /\ a.link # b.link
    /\ normalizeText(a.title) = normalizeText(b.title)

Returned == dedupPc # "start" /\ ~unique.threw

\* C5: if two Articles of the input share an identical link, at most one of
\* them appears in the output of removeDuplicates, whatever their titles.
C5_UrlExactShortCircuit ==
    Returned =>
        \A i, j \in DOMAIN unique.value :
            (i # j /\ ~FalsyLink(unique.value[i].link)) =>
                unique.value[i].link # unique.value[j].link

\* C6 as stated: of two Articles with identical normalized titles and
\* different URLs the Deduplicator retains exactly the first.
C6_ExactlyFirstRetained ==
    (Returned /\ Len(articles) = 2 /\ SameStoryPair(articles[1], articles[2])) =>
        unique.value = <<articles[1]>>

\* C6 amended: in any input at most one of two such Articles is retained;
\* when the input is exactly the two, server.js retains exactly the first,
\* and part_006 retains exactly the first when the normalized title has at
\* least MinTitleLength characters and neither of them when it is shorter.
C6_SameStoryAmended ==
    Returned =>
        /\ \A i, j \in DOMAIN articles :
              (i < j /\ SameStoryPair(articles[i], articles[j])) =>
                  ~(Retained(unique, articles[i]) /\ Retained(unique, articles[j]))
        /\ (Len(articles) = 2 /\ SameStoryPair(articles[1], articles[2])) =>
              IF variant = "part_006"
                 /\ Len(normalizeText(articles[1].title)) < MinTitleLength
              THEN unique.value = <<>>
              ELSE unique.value = <<articles[1]>>

C6_Witness ==
    /\ Returned /\ Len(articles) = 2
    /\ SameStoryPair(articles[1], articles[2])
    /\ articles[1].title # articles[2].title
    /\ unique.value = <<articles[1]>>

\* C7: removeDuplicates applied to its own output returns that output
\* unchanged: nothing further is removed and the order is kept.
C7_Idempotent ==
    dedupPc = "twice" => (~uniqueAgain.threw /\ uniqueAgain.value = unique.value)

C7_Witness ==
    /\ dedupPc = "twice"
    /\ Len(unique.value) >= 2
    /\ Len(unique.value) < Len(articles)

\* C8: every Article whose normalized title has fewer than 10 characters
\* is dropped by the Deduplicator.
C8_MinimumLength ==
    Returned =>
        \A k \in DOMAIN unique.value :
            FalsyTitle(unique.value[k].title)
            \/ Len(normalizeText(unique.value[k].title)) >= MinTitleLength

\* the rule as stated, applied to an input from its position i on: an
\* Article is dropped exactly when an Article retained before it has its link
\* or a normalized title more similar than the threshold
RECURSIVE RetainedByRule(_, _, _)
RetainedByRule(input, i, retained) ==
    IF i > Len(input) THEN retained
    ELSE LET a == input[i]
             dropped == \E k \in DOMAIN retained :
                           \/ retained[k].link = a.link
                           \/ SimilarityExceeds(normalizeText(retained[k].title),
                                                normalizeText(a.title),
                                                SimilarityThreshold)
         IN RetainedByRule(input, i + 1,
                           IF dropped THEN retained ELSE Append(retained, a))

\* C21 as stated: removeDuplicates of server.js drops an Article if and only
\* if its link equals the link of a previously retained Article or its
\* normalized title is more than 0.85 similar to that of a previously
\* retained Article.
C21_DroppedIffLinkOrSimilar ==
    (Returned /\ variant = "server")
    => unique.value = RetainedByRule(articles, 1, <<>>)

\* C21 amended: an Article without a title or without a link is dropped; the
\* rule decides for the others; in the output no two Articles have normalized
\* titles more than 0.85 similar.
C21_FuzzyTitleRule ==
    (Returned /\ variant = "server")
    => /\ unique.value = RetainedByRule(SelectSeq(articles, HasTitleAndLink), 1, <<>>)
       /\ \A i, j \in DOMAIN unique.value :
             i # j => ~SimilarityExceeds(normalizeText(unique.value[i].title),
                                        normalizeText(unique.value[j].title),
                                        SimilarityThreshold)

\* three Articles with three links where the second is dropped for its title
\* and the third, similar to the second only, is retained
C21_Witness ==
    /\ Returned /\ variant = "server"
    /\ Len(articles) = 3
    /\ articles[1].title = TitleRuto /\ articles[1].link = LinkA
    /\ articles[2].title = TitleRutoNow
    /\ articles[3].title = TitleRutoNowXyz
    /\ unique.value = <<articles[1], articles[3]>>

\* sub is obtained from list by deleting elements
RECURSIVE IsSubsequence(_, _)
IsSubsequence(sub, list) ==
    IF sub = <<>> THEN TRUE
    ELSE IF list = <<>> THEN FALSE
    ELSE IF Head(sub) = Head(list) THEN IsSubsequence(Tail(sub), Tail(list))
    ELSE IsSubsequence(sub, Tail(list))

\* C23: every call of removeDuplicates that returns leaves its input as it
\* was and returns a subsequence of it: the same Article values, none
\* modified or added, in the order of the input.
C23_OnlyFilters ==
    [][ /\ articles' = articles
        /\ (dedupPc' = "once" /\ ~unique'.threw)
           => IsSubsequence(unique'.value, articles)
        /\ (dedupPc' = "twice" /\ ~uniqueAgain'.threw)
           => (unique' = unique /\ IsSubsequence(uniqueAgain'.value, unique.value)) ]_vars

\* an input of three Articles of which the second is dropped
C23_Witness ==
    /\ dedupPc = "once" /\ ~unique.threw
    /\ Len(articles) = 3
    /\ articles[1] # articles[3]
    /\ unique.value = <<articles[1], articles[3]>>

(***************************************************************************)
(* Properties of the Source Adapters (SpecAdapters).                       *)
(***************************************************************************)
\* the outcome of the adapter's own upstream call
primaryCall ==
    IF adapter \in ApiAdapters THEN net.api
    ELSE IF adapter \in HtmlAdapters THEN net.html
    ELSE net.rss

\* every upstream call the adapter can make has failed
AllCallsFailed ==
    /\ primaryCall.kind # "ok"
    /\ UsesHtml(adapter) => net.html.kind # "ok"
    /\ UsesRss(adapter) => net.rss.kind # "ok"

FallbackAdapters == {"part_001.getNewsTopics", "part_001.getXTrends",
                     "part_006.scrapeGoogleTrends", "part_006.scrapeGoogleTrendsRSS",
                     "part_006.getNewsTopics"}

CapOf(v) == IF v = "server" THEN CapServer ELSE Cap006

\* C17: every 200 response of GET /api/news/:category has at most the
\* variant's cap of items (30 in server.js, 10 in part_006) and a count
\* equal to the length of its items; in part_003 each of kenya.news and
\* worldwide.news has at most 25 items.
C17_PerCategoryCap ==
    \A r \in Requests :
        (Answered(r) /\ req[r].response.status = 200)
        => LET body == req[r].response.body
           IN /\ req[r].endpoint = "category"
                 => (Len(body.items) <= CapOf(variant) /\ body.count = Len(body.items))
              /\ variant = "part_003"
                 => \A i \in DOMAIN body.lists : Len(body.lists[i].articles) <= Cap003

\* a category answered with exactly the cap while more articles qualified,
\* or a part_003 list cut to its cap
C17_Witness ==
    \E r \in Requests :
        /\ Answered(r) /\ req[r].response.status = 200
        /\ \/ /\ variant = "server" /\ req[r].endpoint = "category"
              /\ Len(req[r].response.body.items) = CapServer
              /\ Len(web.gnews.items) > CapServer
           \/ /\ variant = "part_003"
              /\ Len(req[r].response.body.lists[2].articles) = Cap003
              /\ Len(web.global.items) > Cap003

\* C19: every Article in the result of getNewsByCategory(c) in server.js
\* carries the category c, whichever adapter produced it.
C19_PostFetchFilter ==
    \A r \in Requests :
        (variant = "server" /\ Answered(r) /\ req[r].dispatched)
        => /\ (req[r].endpoint = "category" /\ req[r].response.status = 200)
              => \A i \in DOMAIN req[r].response.body.items :
                    req[r].response.body.items[i].category
                        = paramToLowerCase(req[r].param)
           /\ req[r].endpoint = "news"
              => \A c \in {"politics", "sports", "news"} :
                    LET found == getNewsByCategoryServer(c, web, now)
                    IN ~found.threw
                       => \A i \in DOMAIN found.value : found.value[i].category = c

\* the politics category answered with articles while the scrapers delivered
\* articles of other categories
C19_Witness ==
    \E r \in Requests :
        /\ variant = "server" /\ Answered(r) /\ req[r].dispatched
        /\ req[r].endpoint = "category" /\ paramToLowerCase(req[r].param) = "politics"
        /\ req[r].response.status = 200
        /\ Len(req[r].response.body.items) >= 1
        /\ LET scraped == scrapeAllSites(web, now)
           IN ~scraped.threw
              /\ \E i \in DOMAIN scraped.value : scraped.value[i].category # "politics"


\* a title or description that contains a Kenyan keyword in any letter case
ContainsKeyword(text) ==
    /\ text # Undefined
    /\ \E keyword \in kenyanKeywords : includes(toLowerCase(text), keyword)

\* C18: in the /api/trends response of part_003 no item of worldwide.news
\* has a title or content that contains a Kenyan keyword in any letter case,
\* and none is tagged 'Kenyan News'.
C18_GlobalExclusion ==
    \A r \in Requests :
        (variant = "part_003" /\ Answered(r) /\ req[r].response.status = 200)
        => LET worldwide == req[r].response.body.lists[2].articles
           IN \A i \in DOMAIN worldwide :
                 /\ ~ContainsKeyword(worldwide[i].title)
                 /\ ~ContainsKeyword(worldwide[i].content)
                 /\ worldwide[i].category # "Kenyan News"

\* worldwide.news answered with items while the global headlines held an
\* item with a keyword in capitals and the Kenyan headlines held items
C18_Witness ==
    \E r \in Requests :
        /\ variant = "part_003" /\ Answered(r) /\ req[r].response.status = 200
        /\ Len(req[r].response.body.lists[2].articles) >= 1
        /\ web.global.kind = "ok" /\ web.kenya.kind = "ok"
        /\ \E i \in DOMAIN web.global.items : web.global.items[i].title = TitleKcb
        /\ \E i \in DOMAIN web.kenya.items : ~ContainsKeyword(web.kenya.items[i].title)


\* the invocations one entry may see without an adapter being invoked twice:
\* the second call of a part_006 trend callback is scrapeGoogleTrends, which
\* is the adapter of the entries of type google and not of those of type news
OncePerAdapter(kind, i) ==
    IF kind = "trends_006" /\ TrendCategories006[i].type = "news" THEN 2 ELSE 1

\* C20: within one aggregation no adapter is invoked more than once for one
\* configured entry; an empty or failed invocation is not followed by another
\* invocation of the same adapter.
C20_NoRetry ==
    fanPc # "off" => \A i \in DOMAIN fanCalls : fanCalls[i] <= OncePerAdapter(fanKind, i)


\* a list of Articles in non-increasing order of pubDate
NewestFirst(list) ==
    \A i, j \in DOMAIN list : i < j => list[i].pubDate >= list[j].pubDate

\* the deduplicated Articles of a category before the cap
DeduplicatedSet(v, category) ==
    IF v = "server"
    THEN selectNewsUncapped(category,
             combineArticles(scrapeAllSites(web, now),
                             fetchGNewsKenyan(CATEGORY_QUERIES(category), web.gnews)))
    ELSE LET gnews == getGNewsKenyanContent(category, web.gnews)
             newsapi == IF Len(gnews.value) < Cap006
                        THEN getNewsAPIKenyanContent(category, web.newsapi)
                        ELSE Ret(<<>>)
         IN removeDuplicatesPart006(gnews.value \o newsapi.value)

\* C22: in every response of GET /api/news and GET /api/news/:category the
\* Articles are in non-increasing order of pubDate, and the Articles a capped
\* category list keeps are the newest of the deduplicated set.
C22_RecencyOrder ==
    \A r \in Requests :
        (Answered(r) /\ req[r].dispatched /\ req[r].response.status = 200
         /\ variant \in {"server", "part_006"} /\ IsNews(req[r].endpoint))
        => LET body == req[r].response.body
           IN /\ NewestFirst(body.items)
              /\ \A k \in DOMAIN body.lists : NewestFirst(body.lists[k].articles)
              /\ req[r].endpoint = "category"
                 => LET all == DeduplicatedSet(variant, paramToLowerCase(req[r].param)).value
                    IN \A i \in DOMAIN all :
                          (\A k \in DOMAIN body.items : body.items[k] # all[i])
                          => \A k \in DOMAIN body.items :
                                body.items[k].pubDate >= all[i].pubDate


\* C24: in part_004 a request to GET /api/trends makes at most one call that
\* sends a response, whenever the nine-second timer fires, and the timer
\* answers no request that has been answered normally.
C24_AtMostOneResponse ==
    \A r \in Requests :
        (variant = "part_004" /\ req[r].endpoint = "trends")
        => /\ req[r].sends <= 1
           /\ ~req[r].unhandled
           /\ (Answered(r) /\ req[r].timedOut) => req[r].response.status = 504

(***************************************************************************)
(* Properties of the cached /api/trends aggregate (SpecFanout).            *)
(***************************************************************************)
CachedTrends == cache[cacheKeyOf(variant, "trends", "")]

TrendKeys(kind) == {FanCategories(kind)[i].key : i \in DOMAIN FanCategories(kind)}

\* C25: in server.js, part_000, part_001, part_002, part_005 and part_006 the
\* cache entry 'trends', when present, is the successful response of a round
\* all of whose adapter calls have settled, with a list under every one of
\* the twelve category keys.
C25_CachedAggregateComplete ==
    (WritesKey(fanKind) /\ CachedTrends.present)
    => /\ \A i \in FanAdapters(fanKind) : fanState[i] = "settled"
       /\ fanResponse.status = 200
       /\ CachedTrends.value = fanResponse.body
       /\ CachedTrends.value.success
       /\ Len(CachedTrends.value.lists) = Cardinality(TrendKeys(fanKind))
       /\ Cardinality(TrendKeys(fanKind)) = 12
       /\ {CachedTrends.value.lists[n].category : n \in DOMAIN CachedTrends.value.lists}
             = TrendKeys(fanKind)
       /\ \A n \in DOMAIN CachedTrends.value.lists :
             DOMAIN CachedTrends.value.lists[n].articles
                = 1..Len(CachedTrends.value.lists[n].articles)

\* a round whose calls returned out of order, some with no trends, has been
\* stored
C25_Witness ==
    /\ WritesKey(fanKind) /\ CachedTrends.present
    /\ fanOvertakes = 1
    /\ \E n \in DOMAIN CachedTrends.value.lists : CachedTrends.value.lists[n].articles = <<>>
    /\ \E n \in DOMAIN CachedTrends.value.lists : CachedTrends.value.lists[n].articles # <<>>

(***************************************************************************)
(* Properties of the /api/trends aggregates (SpecPipeline, SpecFanout).    *)
(***************************************************************************)
\* the list of a response under a category key
ListUnder(response, key) ==
    LET n == CHOOSE n \in DOMAIN response.body.lists : response.body.lists[n].category = key
    IN response.body.lists[n].articles

\* what the Google Trends adapter that sources_used (server.js 293-294)
\* names for a key would return, the Google Trends upstream answering as the
\* feeds do
DeclaredAdapter(key, w) ==
    IF key = "worldwide" THEN scrapeGoogleTrendsAPI(w.rss) ELSE scrapeGoogleTrendsRSS(w.rss)

PytrendsKeys ==
    {TrendCategories[i].key : i \in {j \in DOMAIN TrendCategories :
                                        TrendCategories[j].type = "pytrends"}}

\* C26: in a fresh /api/trends response of server.js the list under kenya,
\* worldwide and googletrends is non-empty whenever the Google Trends adapter
\* declared for that key would return a non-empty list.
C26_PytrendsPopulated ==
    \A r \in Requests :
        ( /\ variant = "server_trends" /\ Answered(r) /\ req[r].dispatched
          /\ req[r].endpoint = "trends" /\ req[r].response.status = 200 )
        => \A key \in PytrendsKeys :
              Len(DeclaredAdapter(key, web).value) > 0
              => Len(ListUnder(req[r].response, key)) > 0

\* C27: when NewsAPI and X fail or have no key, the /api/trends response of
\* part_001 holds under every category key that key's own mock list, and no
\* list is empty.
C27_OwnMockLists ==
    (fanPc = "done" /\ fanKind = "trends_001" /\ fanWeb \in {Down006, NoKeys001})
    => \A key \in TrendKeys(fanKind) :
          /\ ListUnder(fanResponse, key) = mockData[key]
          /\ Len(ListUnder(fanResponse, key)) > 0

\* C28: in getNewsByCategory of part_006 NewsAPI is called if and only if
\* GNews has returned fewer than ten Articles, and then after GNews has
\* returned; the merged list is the GNews Articles followed by the NewsAPI
\* Articles; the returned list has at most ten Articles; for a name that is
\* not a category of NEWS_CATEGORIES no adapter is called and the result is
\* empty.
C28_SecondaryOnShortfall ==
    fanKind = "news_006"
    => /\ fanCalls[2] > 0 <=> (fanState[1] = "settled" /\ Len(fanOut[1].value) < Cap006)
       /\ fanCalls[2] > 0 => 1 \in fanStartedAfter[2]
       /\ fanPc = "done" => fanMerged.value = fanOut[1].value \o fanOut[2].value
       /\ (fanPc = "done" /\ fanResponse.status = 200)
          => Len(fanResponse.body.items) <= Cap006
       /\ fanCategory \notin Range(CategoryKeys006)
          => /\ \A i \in FanAdapters(fanKind) : fanCalls[i] = 0
             /\ (fanPc = "done" /\ fanResponse.status = 200)
                => fanResponse.body.items = <<>>

FeedsFail(w) == \A i \in DOMAIN w.feeds : w.feeds[i].kind # "ok"

ApiFails(w) == w.kenya.kind # "ok" /\ w.global.kind # "ok"

\* C29: in a fresh /api/trends response of part_003 every Article of
\* getNewsAPITopics passes exactly one of the two filters, so that, when
\* nothing is truncated, it is in exactly one of kenya.news and
\* worldwide.news; when the feeds fail the Articles of NewsAPI are in the
\* response, when NewsAPI fails the Articles of the feeds are, up to the cap.
C29_ApiPartition ==
    \A r \in Requests :
        ( /\ variant = "part_003" /\ Answered(r) /\ req[r].dispatched
          /\ req[r].response.status = 200 )
        => LET api == getNewsAPITopics003(web.kenya, web.global)
               fed == fetchKenyanNews(web.feeds)
               kenya == req[r].response.body.lists[1].articles
               worldwide == req[r].response.body.lists[2].articles
           IN /\ \A i \in DOMAIN api : kenyanFilter003(api[i]) # globalFilter003(api[i])
              /\ Len(fed) + Len(api) <= Cap003
                 => /\ \A i \in DOMAIN api :
                         (api[i] \in Range(kenya)) # (api[i] \in Range(worldwide))
                    /\ Len(kenya) + Len(worldwide) = Len(fed) + Len(api)
              /\ FeedsFail(web)
                 => \A i \in DOMAIN api :
                       i <= Cap003 => api[i] \in Range(kenya) \cup Range(worldwide)
              /\ ApiFails(web) => (kenya = slice(fed, Cap003) /\ worldwide = <<>>)

\* the feeds failed and NewsAPI returned a Kenyan and a global Article, both
\* in the response
C29_Witness ==
    \E r \in Requests :
        /\ variant = "part_003" /\ Answered(r) /\ req[r].dispatched
        /\ req[r].response.status = 200
        /\ FeedsFail(web)
        /\ LET api == getNewsAPITopics003(web.kenya, web.global)
           IN /\ \E i \in DOMAIN api : kenyanFilter003(api[i])
              /\ \E i \in DOMAIN api : globalFilter003(api[i])
        /\ req[r].response.body.lists[1].articles # <<>>
        /\ req[r].response.body.lists[2].articles # <<>>

(***************************************************************************)
(* Termination of a round of GET /api/trends of part_006 (SpecTrends006).  *)
(***************************************************************************)
\* five requests: NewsAPI, the page and the feed, then the page and the feed
\* again
HttpBounded == \A i \in FanAdapters(fanKind) : fanHttp[i] <= 5 /\ fanCalls[i] <= 2

\* C30: every upstream call returning or failing, a round of GET /api/trends
\* of part_006 ends with a response sent, and no category makes more than
\* five upstream HTTP requests or calls its adapters more than twice.
C30_RoundTerminates ==
    /\ []HttpBounded
    /\ (fanPc = "start") ~> (fanPc = "done" /\ fanResponse.status = 200)

\* a category has made its five requests and the response has been sent
C30_Witness ==
    /\ fanKind = "trends_006" /\ fanPc = "done" /\ fanResponse.status = 200
    /\ \E i \in FanAdapters(fanKind) : fanHttp[i] = 5 /\ fanCalls[i] = 2
    /\ \E i \in FanAdapters(fanKind) : fanHttp[i] < 5

====
